---------------------------- MODULE Spec2Model ----------------------------
(***************************************************************************)
(* Trade replication engine of kitecopytrader: the leader feed handler     *)
(* (core/master_client.py), the fan-out coordinator (main.py) and the      *)
(* follower risk check, sizing and order submission (follower_client.py),  *)
(* and the order polling of AutomatedKiteSystem.                           *)
(*                                                                         *)
(* Seven specifications share the definitions below:                       *)
(*   Spec          the whole system: start-up, feed handler, fan-out,      *)
(*                 shutdown                                                *)
(*   SpecFollower  one FollowerAccountClient driven by replicate_trade     *)
(*   SpecRisk      the risk check and sizing functions over wide inputs    *)
(*   SpecMaster    the connection of the MasterAccountClient               *)
(*   SpecFeed      its order update handler with any trade callback        *)
(*   SpecPacing    one FollowerAccountClient with its clock                *)
(*   SpecMonitor   the polling of utils/automated_token_generator.py       *)
(***************************************************************************)
EXTENDS Integers, Sequences, FiniteSets, TLC

VARIABLES
    config,                   \* follower id -> AccountConfig
    paper_trading,            \* system_config['paper_trading']
    main_pc,                  \* position of the main thread in start_system
    follower_clients,         \* CopyTradingSystem.follower_clients (list of follower ids)
    processed_orders,         \* MasterAccountClient.processed_orders
    total_trades_processed,
    successful_replications,
    failed_replications,
    daily_trades_count,       \* per follower
    daily_pnl,                \* per follower
    placed_orders,            \* per follower, list of records
    failed_orders,            \* per follower, list of records
    pc,                       \* position of the feed thread
    trade_data,               \* the trade the feed thread is handling
    idx,                      \* fan-out loop position in follower_clients
    successful_count,         \* fan-out local
    cur,                      \* follower whose replicate_trade is running
    rt,                       \* locals of the current/last replicate_trade
    order_params,             \* argument of _place_order_with_retry
    attempt,                  \* loop variable of _place_order_with_retry
    last_error,               \* outcome of the previous place_order attempt
    callbacks,                \* order id -> number of on_trade_callback calls
    redelivered,              \* order ids delivered again as COMPLETE after being processed
    replicate_calls,          \* follower -> replicate_trade calls for the current event
    place_invoked,            \* followers on whose account kite.place_order was called
    call_attempts,            \* kite.place_order calls of the current/last submit call
    calls,                    \* replicate_trade calls made by the follower harness
    results,                  \* what replicate_trade returned to the fan-out loop, per client
    notified,                 \* calls of NotificationManager.send_trade_notification
    is_connected,             \* MasterAccountClient.is_connected
    reconnect_count,          \* MasterAccountClient.reconnect_count
    kws,                      \* state of the KiteTicker connection
    timers,                   \* pending threading.Timer(_manual_reconnect)
    manual_attempts,          \* _manual_reconnect runs since the feed was lost
    stopped,                  \* stop_monitoring called, start_monitoring not called since
    handler,                  \* the last _on_order_update call: its data and how it ended
    caught,                   \* kinds of exceptions _on_order_update has caught so far
    connection_status,        \* the last value get_connection_status returned
    clock,                    \* time.time(), in ticks
    last_order_time,          \* per follower, in ticks
    arrived_at,               \* when the current/last replicate_trade call began
    prior_order_time,         \* last_order_time of its follower when it began
    place_times,              \* when it called kite.place_order
    shutdown_wait,            \* how the wait of shutdown ended
    master_config,            \* what load_master_config returns
    subscribed,               \* the last kws.subscribe_order_update() call succeeded
    kite_orders,              \* number of completed orders kite.orders() returns
    aks_processed_orders,     \* AutomatedKiteSystem.processed_orders
    sent,                     \* order -> notifications of it sent successfully
    polls,                    \* monitor_trades calls so far
    poll_ended,               \* how the last monitor_trades call ended
    config_max_daily_trades,  \* system_config['max_daily_trades']
    realized_pnl,             \* per follower, the day's realized profit or loss of
                              \* the account at the broker
    event_now                 \* datetime.now() read by _is_trading_allowed for the
                              \* event being fanned out

\* The state that the follower, fan-out and start-up steps leave alone.
connVars ==
    << is_connected, reconnect_count, kws, timers, manual_attempts, stopped,
       subscribed >>

handlerVars == << handler, caught, connection_status >>

paceVars == << clock, last_order_time, arrived_at, prior_order_time, place_times >>

\* The state of the AutomatedKiteSystem.
monitorVars == << kite_orders, aks_processed_orders, sent, polls, poll_ended >>

\* What the feed handler, besides the connection and the followers, leaves
\* alone.
quietVars == << master_config, monitorVars, config_max_daily_trades, realized_pnl >>

restVars == << quietVars, event_now >>

otherVars == << notified, connVars, handlerVars, paceVars, shutdown_wait, restVars >>

\* The state of the followers, of the fan-out and of the main thread.
followerVars ==
    << config, paper_trading, main_pc, follower_clients, total_trades_processed,
       successful_replications, failed_replications, daily_trades_count, daily_pnl,
       placed_orders, failed_orders, pc, trade_data, idx, successful_count, cur,
       rt, order_params, attempt, last_error, replicate_calls, place_invoked,
       call_attempts, calls, results >>

vars == << config, paper_trading, main_pc, follower_clients, processed_orders,
           total_trades_processed, successful_replications, failed_replications,
           daily_trades_count, daily_pnl, placed_orders, failed_orders,
           pc, trade_data, idx, successful_count, cur, rt, order_params,
           attempt, last_error, callbacks, redelivered, replicate_calls,
           place_invoked, call_attempts, calls, results, otherVars >>

---------------------------------------------------------------------------
(* Values *)

Followers == {"F1", "F2"}

\* Declaration order of the followers in the environment (FOLLOWER_1, FOLLOWER_2).
FollowerOrder == << "F1", "F2" >>

Segments == {"NSE", "BSE", "NFO", "MCX", "BFO", "CDS"}

\* Order identities the leader feed reports.
OrderIds == {"o1", "o2"}

\* A multiplier is a float in the code; the model keeps the dyadic rationals
\* n/d, on which float arithmetic is exact.
Rat(n, d) == [n |-> n, d |-> d]

\* Mutant: the product is rounded down.
TruncDown(n, d) == n \div d

\* Python int(x) of a float: truncation toward zero.
Trunc(n, d) == IF n >= 0 THEN n \div d ELSE -((-n) \div d)

\* int(quantity * multiplier)
IntMul(q, m) == Trunc(q * m.n, m.d)

\* Python "sub in s" on strings, strings being sequences of characters.
IsSubstring(sub, s) ==
    \E i \in 0..(Len(s) - Len(sub)) : SubSeq(s, i + 1, i + Len(sub)) = sub

\* dict.get(key, default)
DictGet(dict, key, default) ==
    IF key \in DOMAIN dict THEN dict[key] ELSE default

NoOverrides == [s \in {} |-> 0]

max_daily_trades == 100

max_daily_loss == 10000

\* Mutant: one more attempt than the default of _place_order_with_retry.
max_retries_one_more == 3 + 1

\* Default of the max_retries parameter of _place_order_with_retry.
max_retries == 3

TransientCodes == {429, 500, 502, 503, 504}

---------------------------------------------------------------------------
(* core/config.py: AccountConfig and the follower configuration loader *)

\* AccountConfig.__post_init__ with no segment settings passed.
AccountConfig(multiplier, max_position_size, enabled) ==
    [ multiplier          |-> multiplier,
      max_position_size   |-> max_position_size,
      enabled             |-> enabled,
      enabled_segments    |-> Segments,
      segment_multipliers |-> [s \in Segments |-> multiplier],
      segment_limits      |-> [s \in Segments |->
                                 CASE s \in {"NFO", "BFO"} -> max_position_size \div 2
                                   [] s = "MCX"            -> max_position_size \div 5
                                   [] OTHER                -> max_position_size] ]

\* SecureConfigManager.load_follower_configs for one follower; env holds the
\* follower's environment: an unset variable is the empty set / empty dict.
LoadFollowerConfig(env) ==
    LET base == AccountConfig(env.multiplier, env.max_position, env.enabled)
        c1   == IF env.enabled_segments # {}
                THEN [base EXCEPT !.enabled_segments = env.enabled_segments]
                ELSE base
        c2   == IF DOMAIN env.segment_multipliers # {}
                THEN [c1 EXCEPT !.segment_multipliers = env.segment_multipliers]
                ELSE c1
    IN  IF DOMAIN env.segment_limits # {}
        THEN [c2 EXCEPT !.segment_limits = env.segment_limits]
        ELSE c2

\* Characters str.strip() removes.
Whitespace == {" ", "\t", "\n"}

\* str.strip() on a sequence of characters
strip(s) ==
    LET kept == {i \in 1..Len(s) : s[i] \notin Whitespace}
    IN  IF kept = {}
        THEN << >>
        ELSE SubSeq(s, CHOOSE i \in kept : \A j \in kept : i <= j,
                       CHOOSE i \in kept : \A j \in kept : i >= j)

\* SecureConfigManager.load_master_config: the four credentials read from the
\* environment, an unset variable reading as the empty string.
load_master_config(env) ==
    [ api_key      |-> DictGet(env, "MASTER_API_KEY", << >>),
      api_secret   |-> DictGet(env, "MASTER_API_SECRET", << >>),
      access_token |-> DictGet(env, "MASTER_ACCESS_TOKEN", << >>),
      user_id      |-> DictGet(env, "MASTER_USER_ID", << >>) ]

\* Mutant: the required fields are tested without strip().
_validate_account_config_unstripped(cfg) ==
    \A field \in {cfg.api_key, cfg.api_secret, cfg.access_token, cfg.user_id} :
        field # << >>

\* CopyTradingSystem._validate_account_config
_validate_account_config(cfg) ==
    \A field \in {cfg.api_key, cfg.api_secret, cfg.access_token, cfg.user_id} :
        strip(field) # << >>

---------------------------------------------------------------------------
(* follower_client.py: risk check and sizing *)

high_risk_commodities ==
    { << "C","R","U","D","E","O","I","L" >>,
      << "N","A","T","U","R","A","L","G","A","S" >>,
      << "G","O","L","D" >>,
      << "S","I","L","V","E","R" >> }

\* A message is its fixed text and the values formatted into it.
Msg(text, args) == [text |-> text, args |-> args]

Deny(text, args) == [passed |-> FALSE, message |-> Msg(text, args)]

\* Mutant: the enabled-segment check dropped.
SegmentEnabledAlways(cfg, exchange) == TRUE

\* "exchange not in self.config.enabled_segments", negated
SegmentEnabled(cfg, exchange) == exchange \in cfg.enabled_segments

\* Mutant: the daily cap compared with > instead of >=.
DailyLimitReachedOffByOne(count) == count > max_daily_trades

\* "self.daily_trades_count >= self.max_daily_trades"
DailyLimitReached(count) == count >= max_daily_trades

\* Mutant: a high-risk commodity is held to the full segment limit.
high_risk_limit_full(segment_limit) == segment_limit

\* "high_risk_limit = segment_limit // 2"
high_risk_limit(segment_limit) == segment_limit \div 2

\* "options_limit = segment_limit // 2"
options_limit(segment_limit) == segment_limit \div 2

\* Mutant: the daily trade limit is checked first.
_check_risk_limits_cap_first(cfg, count, pnl, trade) ==
    LET exchange           == trade.exchange
        segment_multiplier == DictGet(cfg.segment_multipliers, exchange, cfg.multiplier)
        segment_limit      == DictGet(cfg.segment_limits, exchange, cfg.max_position_size)
        adjusted_quantity  == IntMul(trade.quantity, segment_multiplier)
        symbol             == trade.tradingsymbol
    IN  IF DailyLimitReached(count)
        THEN Deny("Daily trade limit reached", << max_daily_trades >>)
        ELSE IF ~cfg.enabled
        THEN Deny("Account is disabled", << >>)
        ELSE IF ~SegmentEnabled(cfg, exchange)
        THEN Deny("Trading disabled for segment", << exchange >>)
        ELSE IF adjusted_quantity > segment_limit
        THEN Deny("Position size limit exceeded for",
                  << exchange, adjusted_quantity, segment_limit >>)
        ELSE IF /\ exchange = "MCX"
                /\ \E commodity \in high_risk_commodities : IsSubstring(commodity, symbol)
                /\ adjusted_quantity > high_risk_limit(segment_limit)
        THEN Deny("High-risk commodity limit exceeded",
                  << adjusted_quantity, high_risk_limit(segment_limit) >>)
        ELSE IF /\ exchange \in {"NFO", "BFO"}
                /\ IsSubstring(<< "C","E" >>, symbol) \/ IsSubstring(<< "P","E" >>, symbol)
                /\ adjusted_quantity > options_limit(segment_limit)
        THEN Deny("Options position limit exceeded",
                  << adjusted_quantity, options_limit(segment_limit) >>)
        ELSE IF exchange = "CDS" /\ adjusted_quantity > segment_limit
        THEN Deny("Currency position limit exceeded",
                  << adjusted_quantity, segment_limit >>)
        ELSE IF pnl < -max_daily_loss
        THEN Deny("Daily loss limit reached", << pnl >>)
        ELSE [passed |-> TRUE, message |-> Msg("Risk check passed for", << exchange >>)]

\* FollowerAccountClient._check_risk_limits: (passed, message).  cfg is
\* self.config, count is self.daily_trades_count, pnl is self.daily_pnl.
\* The pacing sleep at the end changes no field.
_check_risk_limits(cfg, count, pnl, trade) ==
    LET exchange           == trade.exchange
        segment_multiplier == DictGet(cfg.segment_multipliers, exchange, cfg.multiplier)
        segment_limit      == DictGet(cfg.segment_limits, exchange, cfg.max_position_size)
        adjusted_quantity  == IntMul(trade.quantity, segment_multiplier)
        symbol             == trade.tradingsymbol
    IN  IF ~cfg.enabled
        THEN Deny("Account is disabled", << >>)
        ELSE IF ~SegmentEnabled(cfg, exchange)
        THEN Deny("Trading disabled for segment", << exchange >>)
        ELSE IF DailyLimitReached(count)
        THEN Deny("Daily trade limit reached", << max_daily_trades >>)
        ELSE IF adjusted_quantity > segment_limit
        THEN Deny("Position size limit exceeded for",
                  << exchange, adjusted_quantity, segment_limit >>)
        ELSE IF /\ exchange = "MCX"
                /\ \E commodity \in high_risk_commodities : IsSubstring(commodity, symbol)
                /\ adjusted_quantity > high_risk_limit(segment_limit)
        THEN Deny("High-risk commodity limit exceeded",
                  << adjusted_quantity, high_risk_limit(segment_limit) >>)
        ELSE IF /\ exchange \in {"NFO", "BFO"}
                /\ IsSubstring(<< "C","E" >>, symbol) \/ IsSubstring(<< "P","E" >>, symbol)
                /\ adjusted_quantity > options_limit(segment_limit)
        THEN Deny("Options position limit exceeded",
                  << adjusted_quantity, options_limit(segment_limit) >>)
        ELSE IF exchange = "CDS" /\ adjusted_quantity > segment_limit
        THEN Deny("Currency position limit exceeded",
                  << adjusted_quantity, segment_limit >>)
        ELSE IF pnl < -max_daily_loss
        THEN Deny("Daily loss limit reached", << pnl >>)
        ELSE [passed |-> TRUE, message |-> Msg("Risk check passed for", << exchange >>)]

\* Mutant: the quantity is raised to 1 under any multiplier.
ClampQuantityAlways(adjusted_quantity, segment_multiplier) ==
    IF adjusted_quantity < 1 THEN 1 ELSE adjusted_quantity

\* Mutant: no clamp to the minimum quantity.
ClampQuantityNone(adjusted_quantity, segment_multiplier) == adjusted_quantity

\* The "ensure minimum quantity of 1" step of _calculate_quantity.
ClampQuantity(adjusted_quantity, segment_multiplier) ==
    IF adjusted_quantity < 1 /\ segment_multiplier.n > 0 THEN 1 ELSE adjusted_quantity

\* FollowerAccountClient._calculate_quantity
_calculate_quantity(cfg, original_quantity, exchange) ==
    LET segment_multiplier == DictGet(cfg.segment_multipliers, exchange, cfg.multiplier)
        adjusted_quantity  == IntMul(original_quantity, segment_multiplier)
        clamped            == ClampQuantity(adjusted_quantity, segment_multiplier)
    IN  \* the MCX and NFO/BFO branches test 0 < q < 1 on an integer
        IF exchange \in {"MCX", "NFO", "BFO"} /\ clamped > 0 /\ clamped < 1
        THEN 1
        ELSE clamped

\* order_params as replicate_trade prepares them.
OrderParams(master_trade, adjusted_quantity) ==
    LET exchange == master_trade.exchange
        product  == IF exchange = "MCX" /\ master_trade.product \notin {"MIS", "NRML"}
                    THEN "MIS"
                    ELSE master_trade.product
        limit    == master_trade.order_type = "LIMIT" /\ master_trade.price # 0
    IN  [ variety          |-> "regular",
          exchange         |-> exchange,
          tradingsymbol    |-> master_trade.tradingsymbol,
          transaction_type |-> master_trade.transaction_type,
          quantity         |-> adjusted_quantity,
          product          |-> product,
          order_type       |-> IF limit THEN "LIMIT" ELSE "MARKET",
          price            |-> IF limit THEN master_trade.price ELSE 0,
          tag              |-> << "copy_trade", master_trade.order_id, exchange >> ]

NoParams == [variety |-> "none"]

\* replicate_trade up to the call of _place_order_with_retry: the locals
\* risk_check_passed, risk_message, adjusted_quantity, and whether the order
\* placement step is entered.
ReplicateDecision(cfg, count, pnl, master_trade) ==
    LET risk     == _check_risk_limits(cfg, count, pnl, master_trade)
        adjusted == _calculate_quantity(cfg, master_trade.quantity, master_trade.exchange)
    IN  IF ~risk.passed
        THEN [ trade |-> master_trade, risk_check_passed |-> FALSE,
               risk_message |-> risk.message, calculated |-> FALSE,
               adjusted_quantity |-> 0, places |-> FALSE, params |-> NoParams ]
        ELSE IF adjusted <= 0
        THEN [ trade |-> master_trade, risk_check_passed |-> TRUE,
               risk_message |-> risk.message, calculated |-> TRUE,
               adjusted_quantity |-> adjusted, places |-> FALSE, params |-> NoParams ]
        ELSE [ trade |-> master_trade, risk_check_passed |-> TRUE,
               risk_message |-> risk.message, calculated |-> TRUE,
               adjusted_quantity |-> adjusted, places |-> TRUE,
               params |-> OrderParams(master_trade, adjusted) ]

---------------------------------------------------------------------------
(* Inputs *)

MaxQty == 3

INFY == << "I","N","F","Y" >>

GOLD24DECFUT == << "G","O","L","D","2","4","D","E","C","F","U","T" >>

X24DECCE == << "X","2","4","D","E","C","C","E" >>

\* A futures contract whose name contains CE.
RELIANCE24DECFUT ==
    << "R","E","L","I","A","N","C","E","2","4","D","E","C","F","U","T" >>

\* A validated trade_data record as _on_order_update hands it to the callback.
\* quantity_type is the Python type of the quantity value; for a string the
\* quantity field holds its length.
Trade(order_id, exchange, symbol, quantity) ==
    [ order_id         |-> order_id,
      tradingsymbol    |-> symbol,
      exchange         |-> exchange,
      transaction_type |-> "BUY",
      quantity         |-> quantity,
      quantity_type    |-> "int",
      price            |-> 0,
      product          |-> "CNC",
      order_type       |-> "MARKET" ]

NoTrade == Trade("none", "none", << >>, 0)

NoCall ==
    [ trade |-> NoTrade, risk_check_passed |-> FALSE, risk_message |-> Msg("", << >>),
      calculated |-> FALSE, adjusted_quantity |-> 0, places |-> FALSE,
      params |-> NoParams ]

\* The follower environments of the risk-function specification.
RiskMultipliers ==
    { Rat(0, 1), Rat(1, 2), Rat(1, 1), Rat(2, 1), Rat(-1, 1), Rat(-1, 2) }

RiskEnvs ==
    [ multiplier          : RiskMultipliers,
      max_position        : {0, 4, 1000},
      enabled             : BOOLEAN,
      enabled_segments    : { {}, {"NSE", "MCX"} },
      segment_multipliers : { NoOverrides, "MCX" :> Rat(1, 2), "NSE" :> Rat(0, 1) },
      segment_limits      : { NoOverrides, "NSE" :> 0, "MCX" :> 200 } ]

RiskTrades ==
    { Trade("o1", e, s, q) : e \in {"NSE", "MCX", "NFO", "CDS"},
                             s \in {INFY, GOLD24DECFUT, X24DECCE, RELIANCE24DECFUT},
                             q \in 1..MaxQty }

\* Followers with the default limits of a maximum position of 1000 (NFO 500,
\* MCX 200) and a multiplier of 0.2, 0.5, 5 or 20; on the quantities below the
\* float products are whole numbers.
ScenarioEnvs ==
    { [ multiplier |-> m, max_position |-> 1000, enabled |-> TRUE,
        enabled_segments |-> {}, segment_multipliers |-> NoOverrides,
        segment_limits |-> NoOverrides ] :
      m \in { Rat(1, 5), Rat(1, 2), Rat(5, 1), Rat(20, 1) } }

ScenarioTrades ==
    { Trade("o1", "NFO", X24DECCE, 100),
      Trade("o1", "NFO", RELIANCE24DECFUT, 100),
      Trade("o1", "MCX", GOLD24DECFUT, 10) }

DailyCounts == {0, max_daily_trades - 1, max_daily_trades, max_daily_trades + 1}

DefaultEnv ==
    [ multiplier |-> Rat(1, 1), max_position |-> 1000, enabled |-> TRUE,
      enabled_segments |-> {}, segment_multipliers |-> NoOverrides,
      segment_limits |-> NoOverrides ]

\* Most orders the broker reports in a day.
MaxOrders == 52

\* Most monitor_trades calls.
MaxPolls == 3

\* Order 0 stays open; the orders from 1 on are reported once completed.
OrderNumbers == 0..MaxOrders

MasterVariables ==
    {"MASTER_API_KEY", "MASTER_API_SECRET", "MASTER_ACCESS_TOKEN", "MASTER_USER_ID"}

\* An environment with every master credential set.
SetMasterEnv == [k \in MasterVariables |-> << "k" >>]

\* Master environments: every credential set, or one of them unset, empty or
\* blank.
MasterEnvs ==
    {SetMasterEnv}
        \cup { [k \in MasterVariables \ {u} |-> << "k" >>] : u \in MasterVariables }
        \cup { [SetMasterEnv EXCEPT ![u] = v] :
                   u \in MasterVariables, v \in { << >>, << " " >>, << " ", "\t" >> } }

---------------------------------------------------------------------------
(* State after construction *)

\* The master account is configured.
MasterConfigured == master_config = load_master_config(SetMasterEnv)

\* SecureConfigManager.__init__: "int(os.getenv('MAX_DAILY_TRADES', '100'))",
\* the variable holding a number when set.
get_max_daily_trades(env) == DictGet(env, "MAX_DAILY_TRADES", 100)

\* The system configuration with MAX_DAILY_TRADES unset.
SystemConfigured == config_max_daily_trades = get_max_daily_trades(NoOverrides)

\* No position of a follower account has been closed today.
NothingRealized == realized_pnl = [f \in Followers |-> 0]

\* No trade event is being handled.
NoEvent == event_now = [weekday |-> -1, time |-> -1]

\* AutomatedKiteSystem.__init__
MonitorConstructed ==
    /\ kite_orders = 0
    /\ aks_processed_orders = {}
    /\ sent = [o \in OrderNumbers |-> 0]
    /\ polls = 0
    /\ poll_ended = "none"

\* FollowerAccountClient.__init__ for every follower, no client list yet.
FollowersConstructed ==
    /\ daily_trades_count = [f \in Followers |-> 0]
    /\ daily_pnl = [f \in Followers |-> 0]
    /\ placed_orders = [f \in Followers |-> << >>]
    /\ failed_orders = [f \in Followers |-> << >>]

\* The feed thread before any order update.
FeedIdle ==
    /\ pc = "idle"
    /\ trade_data = NoTrade
    /\ idx = 0
    /\ successful_count = 0
    /\ cur = "none"
    /\ rt = NoCall
    /\ order_params = NoParams
    /\ attempt = 0
    /\ last_error = [kind |-> "none", code |-> 0]
    /\ callbacks = [o \in OrderIds |-> 0]
    /\ redelivered = {}
    /\ replicate_calls = [f \in Followers |-> 0]
    /\ place_invoked = {}
    /\ call_attempts = 0
    /\ calls = 0
    /\ results = << >>

\* No notification has been sent.
NotifierIdle == notified = << >>

NoStatus == [connected |-> FALSE, reconnect_count |-> 0, processed_orders |-> -1]

NoUpdate == [status |-> "none"]

\* MasterAccountClient.__init__: the connection state.
MasterConstructed ==
    /\ is_connected = FALSE
    /\ reconnect_count = 0
    /\ kws = "new"
    /\ timers = 0
    /\ manual_attempts = 0
    /\ stopped = FALSE
    /\ subscribed = FALSE
    /\ handler = [data |-> NoUpdate, kind |-> "none", result |-> "none"]
    /\ caught = {}
    /\ connection_status = NoStatus

min_order_interval == 1

\* Clock ticks in a second.
TicksPerSecond == 2

\* FollowerAccountClient.__init__: last_order_time = 0, the clock being at
\* least min_order_interval past 0.
PaceConstructed ==
    /\ clock = min_order_interval * TicksPerSecond
    /\ last_order_time = [f \in Followers |-> 0]
    /\ arrived_at = 0
    /\ prior_order_time = 0
    /\ place_times = {}

\* shutdown has not been called.
NotShutDown == shutdown_wait = "none"

OthersConstructed ==
    /\ NotifierIdle
    /\ MasterConstructed
    /\ PaceConstructed
    /\ NotShutDown
    /\ MonitorConstructed
    /\ NothingRealized
    /\ NoEvent

\* CopyTradingSystem.__init__ and MasterAccountClient.__init__
SystemConstructed ==
    /\ main_pc = "constructed"
    /\ follower_clients = << >>
    /\ processed_orders = {}
    /\ total_trades_processed = 0
    /\ successful_replications = 0
    /\ failed_replications = 0

---------------------------------------------------------------------------
(* SpecRisk: the risk check and sizing applied to drawn inputs *)

InitRisk ==
    /\ \E env \in RiskEnvs \cup ScenarioEnvs :
          config = [f \in Followers |->
                      LoadFollowerConfig(IF f = "F1" THEN env ELSE DefaultEnv)]
    /\ paper_trading = FALSE
    /\ SystemConstructed
    /\ \E n \in DailyCounts :
          daily_trades_count = [f \in Followers |-> IF f = "F1" THEN n ELSE 0]
    /\ daily_pnl = [f \in Followers |-> 0]
    /\ placed_orders = [f \in Followers |-> << >>]
    /\ failed_orders = [f \in Followers |-> << >>]
    /\ FeedIdle
    /\ OthersConstructed
    /\ MasterConfigured
    /\ SystemConfigured

\* replicate_trade's decision for follower F1 on a drawn trade, applied once
\* to each drawn input.
EvaluateRisk ==
    \E trade \in RiskTrades \cup ScenarioTrades :
        /\ calls = 0
        /\ calls' = 1
        /\ cur' = "F1"
        /\ rt' = ReplicateDecision(config["F1"], daily_trades_count["F1"],
                                   daily_pnl["F1"], trade)
        /\ UNCHANGED << config, paper_trading, main_pc, follower_clients,
                        processed_orders, total_trades_processed,
                        successful_replications, failed_replications,
                        daily_trades_count, daily_pnl, placed_orders, failed_orders,
                        pc, trade_data, idx, successful_count, order_params,
                        attempt, last_error, callbacks, redelivered,
                        replicate_calls, place_invoked, call_attempts, results,
                        otherVars >>

NextRisk == EvaluateRisk

SpecRisk == InitRisk /\ [][NextRisk]_vars

---------------------------------------------------------------------------
(* follower_client.py: replicate_trade and _place_order_with_retry as steps *)

Ok == [kind |-> "ok", code |-> 0]

KiteError(code) == [kind |-> "kite", code |-> code]

OtherError == [kind |-> "other", code |-> 0]

NoError == [kind |-> "none", code |-> 0]

\* "for attempt in range(max_retries)"
AttemptsLeft(a) == a < max_retries

\* Mutant: every KiteException is retried, whatever its code.
ShouldRetryAnyKite(outcome, a) ==
    outcome.kind \in {"kite", "other"} /\ a < 3 - 1

\* Mutant: a retryable error is retried after the last attempt as well, so
\* that the loop runs out.
ShouldRetryOnLast(outcome, a) ==
    \/ outcome.kind = "kite" /\ outcome.code \in TransientCodes
    \/ outcome.kind = "other"

\* The two "continue" branches of _place_order_with_retry: a KiteException
\* whose code is in the retryable list, or any other Exception, before the
\* last attempt.
ShouldRetry(outcome, a) ==
    \/ outcome.kind = "kite" /\ outcome.code \in TransientCodes /\ a < max_retries - 1
    \/ outcome.kind = "other" /\ a < max_retries - 1

\* Mutant: a failed follower ends the fan-out loop.
ReturnAbortingOnFailure(success) ==
    IF idx = 0
    THEN /\ pc' = "idle"
         /\ UNCHANGED << idx, successful_count, results >>
    ELSE /\ pc' = "fanout"
         /\ idx' = IF success THEN idx + 1 ELSE Len(follower_clients) + 1
         /\ successful_count' = IF success THEN successful_count + 1 ELSE successful_count
         /\ results' = Append(results, [user_id |-> follower_clients[idx], success |-> success])

\* replicate_trade returns to its caller: the fan-out loop of _on_master_trade
\* (idx > 0) or a direct caller (idx = 0).
ReturnFromReplicate(success) ==
    IF idx = 0
    THEN /\ pc' = "idle"
         /\ UNCHANGED << idx, successful_count, results >>
    ELSE /\ pc' = "fanout"
         /\ idx' = idx + 1
         /\ successful_count' = IF success THEN successful_count + 1 ELSE successful_count
         /\ results' = Append(results, [user_id |-> follower_clients[idx], success |-> success])

\* Mutant: the risk check counts the trade before it decides.
ReplicateBeginCounting(f, master_trade) ==
    LET d == ReplicateDecision(config[f], daily_trades_count[f], daily_pnl[f],
                               master_trade)
    IN  /\ cur' = f
        /\ rt' = d
        /\ replicate_calls' = [replicate_calls EXCEPT ![f] = @ + 1]
        /\ IF d.places
           THEN /\ pc' = "place"
                /\ order_params' = d.params
                /\ attempt' = 0
                /\ last_error' = NoError
                /\ call_attempts' = 0
                /\ UNCHANGED << idx, successful_count, results >>
           ELSE /\ ReturnFromReplicate(FALSE)
                /\ UNCHANGED << order_params, attempt, last_error, call_attempts >>
        /\ daily_trades_count' = [daily_trades_count EXCEPT ![f] = @ + 1]
        /\ UNCHANGED << daily_pnl, placed_orders, failed_orders, place_invoked >>

\* replicate_trade(master_trade) on follower f, up to the first place_order.
ReplicateBegin(f, master_trade) ==
    LET d == ReplicateDecision(config[f], daily_trades_count[f], daily_pnl[f],
                               master_trade)
    IN  /\ cur' = f
        /\ rt' = d
        /\ replicate_calls' = [replicate_calls EXCEPT ![f] = @ + 1]
        /\ IF d.places
           THEN /\ pc' = "place"
                /\ order_params' = d.params
                /\ attempt' = 0
                /\ last_error' = NoError
                /\ call_attempts' = 0
                /\ UNCHANGED << idx, successful_count, results >>
           ELSE /\ ReturnFromReplicate(FALSE)
                /\ UNCHANGED << order_params, attempt, last_error, call_attempts >>
        /\ UNCHANGED << daily_trades_count, daily_pnl, placed_orders, failed_orders,
                        place_invoked >>

\* Mutant: every failed attempt is recorded in failed_orders, the retried ones
\* too.
PlaceOrderAttemptRecordingRetries(outcome) ==
    /\ pc = "place"
    /\ AttemptsLeft(attempt)
    /\ place_invoked' = place_invoked \cup {cur}
    /\ call_attempts' = call_attempts + 1
    /\ last_error' = outcome
    /\ IF outcome.kind = "ok"
       THEN /\ daily_trades_count' = [daily_trades_count EXCEPT ![cur] = @ + 1]
            /\ placed_orders' = [placed_orders EXCEPT ![cur] =
                    Append(@, [order_id |-> Len(@) + 1, params |-> order_params])]
            /\ ReturnFromReplicate(TRUE)
            /\ UNCHANGED << failed_orders, attempt >>
       ELSE IF ShouldRetry(outcome, attempt)
       THEN /\ attempt' = attempt + 1
            /\ IF AttemptsLeft(attempt + 1)
               THEN UNCHANGED << pc, idx, successful_count, results >>
               ELSE ReturnFromReplicate(FALSE)
            /\ failed_orders' = [failed_orders EXCEPT ![cur] =
                    Append(@, [params |-> order_params, error |-> outcome])]
            /\ UNCHANGED << daily_trades_count, placed_orders >>
       ELSE /\ failed_orders' = [failed_orders EXCEPT ![cur] =
                    Append(@, [params |-> order_params, error |-> outcome])]
            /\ ReturnFromReplicate(FALSE)
            /\ UNCHANGED << daily_trades_count, placed_orders, attempt >>
    /\ UNCHANGED << config, paper_trading, main_pc, follower_clients,
                    processed_orders, total_trades_processed,
                    successful_replications, failed_replications, daily_pnl,
                    trade_data, cur, rt, order_params, callbacks, redelivered,
                    replicate_calls, calls >>

\* One iteration of the loop of _place_order_with_retry: kite.place_order is
\* called and the broker answers with outcome.
PlaceOrderAttempt(outcome) ==
    /\ pc = "place"
    /\ AttemptsLeft(attempt)
    /\ place_invoked' = place_invoked \cup {cur}
    /\ call_attempts' = call_attempts + 1
    /\ last_error' = outcome
    /\ IF outcome.kind = "ok"
       THEN /\ daily_trades_count' = [daily_trades_count EXCEPT ![cur] = @ + 1]
            /\ placed_orders' = [placed_orders EXCEPT ![cur] =
                    Append(@, [order_id |-> Len(@) + 1, params |-> order_params])]
            /\ ReturnFromReplicate(TRUE)
            /\ UNCHANGED << failed_orders, attempt >>
       ELSE IF ShouldRetry(outcome, attempt)
       THEN /\ attempt' = attempt + 1
            /\ IF AttemptsLeft(attempt + 1)
               THEN UNCHANGED << pc, idx, successful_count, results >>
               ELSE ReturnFromReplicate(FALSE)
            /\ UNCHANGED << daily_trades_count, placed_orders, failed_orders >>
       ELSE /\ failed_orders' = [failed_orders EXCEPT ![cur] =
                    Append(@, [params |-> order_params, error |-> outcome])]
            /\ ReturnFromReplicate(FALSE)
            /\ UNCHANGED << daily_trades_count, placed_orders, attempt >>
    /\ UNCHANGED << config, paper_trading, main_pc, follower_clients,
                    processed_orders, total_trades_processed,
                    successful_replications, failed_replications, daily_pnl,
                    trade_data, cur, rt, order_params, callbacks, redelivered,
                    replicate_calls, calls >>

---------------------------------------------------------------------------
(* SpecFollower: one FollowerAccountClient, replicate_trade called directly *)

MaxCalls == 2

BrokerOutcomes ==
    {Ok, OtherError} \cup {KiteError(c) : c \in TransientCodes \cup {400}}

HalfSmallEnv ==
    [ multiplier |-> Rat(1, 2), max_position |-> 4, enabled |-> TRUE,
      enabled_segments |-> {"NSE", "MCX"}, segment_multipliers |-> NoOverrides,
      segment_limits |-> NoOverrides ]

DisabledEnv == [DefaultEnv EXCEPT !.enabled = FALSE]

FollowerEnvs == {DefaultEnv, HalfSmallEnv, DisabledEnv}

FollowerTrades ==
    { Trade("o1", "NSE", INFY, 1), Trade("o2", "MCX", GOLD24DECFUT, 1),
      Trade("o3", "NFO", X24DECCE, 3) }

\* System environments: MAX_DAILY_TRADES unset, or set to 1 or to 100.
SystemEnvs == { NoOverrides, "MAX_DAILY_TRADES" :> 1, "MAX_DAILY_TRADES" :> 100 }

\* The trade replicated earlier in the day in a session that is under way.
PriorTrade == Trade("o0", "NSE", INFY, 2)

PriorCounts == {0, max_daily_trades - 1}

PriorPlaced(cfg, n) ==
    [i \in 1..n |-> [order_id |-> i,
                     params |-> ReplicateDecision(cfg, 0, 0, PriorTrade).params]]

\* A client constructed from a drawn configuration that has placed n orders
\* so far today, n being a count the configuration lets it reach; the system
\* configuration is drawn for a client that starts its day.
InitFollower ==
    /\ \E env \in FollowerEnvs, n \in PriorCounts :
          LET cfg == LoadFollowerConfig(env)
              on(f, a, b) == IF f = "F1" THEN a ELSE b
          IN  /\ n = 0 \/ ReplicateDecision(cfg, 0, 0, PriorTrade).places
              /\ config = [f \in Followers |->
                             on(f, cfg, LoadFollowerConfig(DefaultEnv))]
              /\ daily_trades_count = [f \in Followers |-> on(f, n, 0)]
              /\ placed_orders = [f \in Followers |-> on(f, PriorPlaced(cfg, n), << >>)]
              /\ place_invoked = IF n > 0 THEN {"F1"} ELSE {}
              /\ \E system_env \in IF n = 0 THEN SystemEnvs ELSE {NoOverrides} :
                     config_max_daily_trades = get_max_daily_trades(system_env)
    /\ paper_trading = FALSE
    /\ SystemConstructed
    /\ daily_pnl = [f \in Followers |-> 0]
    /\ failed_orders = [f \in Followers |-> << >>]
    /\ pc = "idle"
    /\ trade_data = NoTrade
    /\ idx = 0
    /\ successful_count = 0
    /\ cur = "none"
    /\ rt = NoCall
    /\ order_params = NoParams
    /\ attempt = 0
    /\ last_error = NoError
    /\ callbacks = [o \in OrderIds |-> 0]
    /\ redelivered = {}
    /\ replicate_calls = [f \in Followers |-> 0]
    /\ call_attempts = 0
    /\ calls = 0
    /\ results = << >>
    /\ OthersConstructed
    /\ MasterConfigured

\* A direct call of replicate_trade on the client.
DirectReplicate ==
    \E trade \in FollowerTrades :
        /\ pc = "idle"
        /\ calls < MaxCalls
        /\ calls' = calls + 1
        /\ trade_data' = trade
        /\ ReplicateBegin("F1", trade)
        /\ UNCHANGED << config, paper_trading, main_pc, follower_clients,
                        processed_orders, total_trades_processed,
                        successful_replications, failed_replications, callbacks,
                        redelivered, otherVars >>

BrokerAnswers ==
    \E outcome \in BrokerOutcomes :
        PlaceOrderAttempt(outcome) /\ UNCHANGED otherVars

\* The positions of the follower account are closed at the broker with a
\* realized loss beyond max_daily_loss.  No code of the follower client
\* reads the account's profit and loss: daily_pnl stays as it is.
PositionsClosedAtLoss ==
    /\ pc = "idle"
    /\ placed_orders["F1"] # << >>
    /\ realized_pnl["F1"] = 0
    /\ realized_pnl' = [realized_pnl EXCEPT !["F1"] = -max_daily_loss - 1]
    /\ UNCHANGED << followerVars, processed_orders, callbacks, redelivered, notified,
                    connVars, handlerVars, paceVars, shutdown_wait, master_config,
                    monitorVars, config_max_daily_trades, event_now >>

NextFollower ==
    \/ DirectReplicate
    \/ BrokerAnswers
    \/ PositionsClosedAtLoss

SpecFollower == InitFollower /\ [][NextFollower]_vars

---------------------------------------------------------------------------
(* core/master_client.py and main.py: feed handler and fan-out *)

\* Mutant: the transaction type is not validated.
_validate_trade_data_any_side(td) ==
    /\ td.tradingsymbol # << >>
    /\ td.exchange # ""
    /\ td.transaction_type # ""
    /\ td.quantity # 0
    /\ td.product # ""
    /\ td.quantity > 0

\* MasterAccountClient._validate_trade_data; a missing or None field is the
\* empty string, the empty symbol or 0, all of which "not x" rejects.
_validate_trade_data(td) ==
    /\ td.tradingsymbol # << >>
    /\ td.exchange # ""
    /\ td.transaction_type # ""
    /\ td.quantity # 0
    /\ td.product # ""
    /\ td.quantity > 0
    /\ td.transaction_type \in {"BUY", "SELL"}

\* trade_data as _on_order_update extracts it from the raw update.
TradeData(data) ==
    [ order_id         |-> data.order_id,
      tradingsymbol    |-> data.tradingsymbol,
      exchange         |-> data.exchange,
      transaction_type |-> data.transaction_type,
      quantity         |-> data.quantity,
      quantity_type    |-> data.quantity_type,
      price            |-> data.price,
      product          |-> data.product,
      order_type       |-> data.order_type ]

\* "trade_data['quantity'] <= 0" raises TypeError when the quantity is not a
\* number; it is reached when all required fields are truthy.
ValidationRaises(td) ==
    /\ td.tradingsymbol # << >>
    /\ td.exchange # ""
    /\ td.transaction_type # ""
    /\ td.quantity # 0
    /\ td.product # ""
    /\ td.quantity_type # "int"

\* Mutant: no duplicate is recognised.
AlreadyProcessedNever(order_id, processed) == FALSE

\* "order_id in self.processed_orders"
AlreadyProcessed(order_id, processed) == order_id \in processed

\* Mutant: updates of every status are processed.
OrderUpdateKindAnyStatus(data, processed) ==
    IF AlreadyProcessed(data.order_id, processed)
    THEN "duplicate"
    ELSE IF ValidationRaises(TradeData(data))
    THEN "validation_raised"
    ELSE IF ~_validate_trade_data(TradeData(data))
    THEN "invalid"
    ELSE "valid"

\* The path _on_order_update takes on data, given the processed orders.
OrderUpdateKind(data, processed) ==
    IF data.status # "COMPLETE"
    THEN "ignored"
    ELSE IF AlreadyProcessed(data.order_id, processed)
    THEN "duplicate"
    ELSE IF ValidationRaises(TradeData(data))
    THEN "validation_raised"
    ELSE IF ~_validate_trade_data(TradeData(data))
    THEN "invalid"
    ELSE "valid"

market_start == 9 * 3600 + 15 * 60

market_end == 15 * 3600 + 30 * 60

\* Mutant: the paper-trading check dropped.
_is_trading_allowed_ignoring_paper(paper, now) ==
    /\ market_start <= now.time
    /\ now.time <= market_end
    /\ now.weekday < 5

\* Mutant: the weekend check dropped.
_is_trading_allowed_any_day(paper, now) ==
    /\ ~paper
    /\ market_start <= now.time
    /\ now.time <= market_end

\* CopyTradingSystem._is_trading_allowed; now is datetime.now() as weekday
\* (Monday = 0) and seconds since midnight.
_is_trading_allowed(paper, now) ==
    IF paper
    THEN FALSE
    ELSE IF ~(market_start <= now.time /\ now.time <= market_end)
    THEN FALSE
    ELSE IF now.weekday >= 5
    THEN FALSE
    ELSE TRUE

\* Mutant: a client is created for every configured follower.
ShouldInitializeAlways(cfg) == TRUE

\* "if config.enabled" of initialize_accounts
ShouldInitialize(cfg) == cfg.enabled

\* initialize_accounts: False when the master configuration is invalid;
\* otherwise a client for every enabled follower configuration whose
\* validate_connection succeeds, in configuration order, and False when
\* there is none.
InitializeAccounts ==
    \E valid \in SUBSET Followers :
        /\ main_pc = "constructed"
        /\ follower_clients' =
               IF _validate_account_config(master_config)
               THEN SelectSeq(FollowerOrder,
                              LAMBDA f : ShouldInitialize(config[f]) /\ f \in valid)
               ELSE follower_clients
        /\ main_pc' = IF follower_clients' = << >> THEN "failed" ELSE "initialized"
        /\ UNCHANGED << config, paper_trading, processed_orders,
                        total_trades_processed, successful_replications,
                        failed_replications, daily_trades_count, daily_pnl,
                        placed_orders, failed_orders, pc, trade_data, idx,
                        successful_count, cur, rt, order_params, attempt,
                        last_error, callbacks, redelivered, replicate_calls,
                        place_invoked, call_attempts, calls, results, otherVars >>

\* start_system: master_client.start_monitoring() succeeds or fails.
StartMonitoring ==
    \E ok \in BOOLEAN :
        /\ main_pc = "initialized"
        /\ main_pc' = IF ok THEN "monitoring" ELSE "failed"
        /\ UNCHANGED << config, paper_trading, follower_clients, processed_orders,
                        total_trades_processed, successful_replications,
                        failed_replications, daily_trades_count, daily_pnl,
                        placed_orders, failed_orders, pc, trade_data, idx,
                        successful_count, cur, rt, order_params, attempt,
                        last_error, callbacks, redelivered, replicate_calls,
                        place_invoked, call_attempts, calls, results, otherVars >>

IsClient(f) == \E i \in 1..Len(follower_clients) : follower_clients[i] = f

\* start_system: reset_daily_stats on every follower client.
ResetDailyStats ==
    /\ main_pc = "monitoring"
    /\ main_pc' = "running"
    /\ daily_trades_count' = [f \in Followers |->
                                IF IsClient(f) THEN 0 ELSE daily_trades_count[f]]
    /\ daily_pnl' = [f \in Followers |-> IF IsClient(f) THEN 0 ELSE daily_pnl[f]]
    /\ placed_orders' = [f \in Followers |->
                           IF IsClient(f) THEN << >> ELSE placed_orders[f]]
    /\ failed_orders' = [f \in Followers |->
                           IF IsClient(f) THEN << >> ELSE failed_orders[f]]
    /\ UNCHANGED << config, paper_trading, follower_clients, processed_orders,
                    total_trades_processed, successful_replications,
                    failed_replications, pc, trade_data, idx, successful_count,
                    cur, rt, order_params, attempt, last_error, callbacks,
                    redelivered, replicate_calls, place_invoked, call_attempts, calls,
                    results, otherVars >>

\* The reset loop of start_system runs on the main thread while the feed
\* thread, started by start_monitoring, is in _place_order_with_retry and
\* kite.place_order has returned an order id.  Neither thread takes a lock.
\* With "feed" first: "daily_trades_count += 1" (l.155), then
\* reset_daily_stats of every client, then "placed_orders.append" (l.156).
\* With "main" first: "daily_trades_count = 0" (l.287) of the client, then
\* the increment and the append, then the rest of reset_daily_stats.
ResetWhilePlacing ==
    \E first \in {"feed", "main"} :
        /\ main_pc = "monitoring"
        /\ pc = "place"
        /\ AttemptsLeft(attempt)
        /\ main_pc' = "running"
        /\ place_invoked' = place_invoked \cup {cur}
        /\ call_attempts' = call_attempts + 1
        /\ last_error' = Ok
        /\ daily_trades_count' = [f \in Followers |->
                IF f = cur /\ first = "main" THEN 1
                ELSE IF IsClient(f) THEN 0 ELSE daily_trades_count[f]]
        /\ daily_pnl' = [f \in Followers |-> IF IsClient(f) THEN 0 ELSE daily_pnl[f]]
        /\ placed_orders' = [f \in Followers |->
                IF f = cur /\ first = "feed"
                THEN << [order_id |-> 1, params |-> order_params] >>
                ELSE IF IsClient(f) THEN << >> ELSE placed_orders[f]]
        /\ failed_orders' = [f \in Followers |->
                IF IsClient(f) THEN << >> ELSE failed_orders[f]]
        /\ ReturnFromReplicate(TRUE)
        /\ UNCHANGED << config, paper_trading, follower_clients, processed_orders,
                        total_trades_processed, successful_replications,
                        failed_replications, trade_data, cur, rt, order_params,
                        attempt, callbacks, redelivered, replicate_calls, calls,
                        otherVars >>

\* MasterAccountClient._on_order_update(data) with, for a new valid COMPLETE
\* order, the callback _on_master_trade up to its fan-out loop.
OnOrderUpdate(data, now) ==
    LET kind == OrderUpdateKind(data, processed_orders)
    IN  /\ pc = "idle"
        /\ main_pc \in {"monitoring", "running"}
        /\ processed_orders' = IF kind \in {"validation_raised", "invalid", "valid"}
                               THEN processed_orders \cup {data.order_id}
                               ELSE processed_orders
        /\ redelivered' = IF kind = "duplicate"
                          THEN redelivered \cup {data.order_id}
                          ELSE redelivered
        /\ IF kind # "valid" \/ ~_is_trading_allowed(paper_trading, now)
           THEN UNCHANGED event_now
           ELSE TRUE
        /\ IF kind # "valid"
           THEN UNCHANGED << callbacks, total_trades_processed, pc, trade_data, idx,
                             successful_count, replicate_calls >>
           ELSE /\ callbacks' = [callbacks EXCEPT ![data.order_id] = @ + 1]
                /\ total_trades_processed' = total_trades_processed + 1
                /\ IF ~_is_trading_allowed(paper_trading, now)
                   THEN UNCHANGED << pc, trade_data, idx, successful_count,
                                     replicate_calls >>
                   ELSE /\ pc' = "fanout"
                        /\ event_now' = now
                        /\ trade_data' = TradeData(data)
                        /\ idx' = 1
                        /\ successful_count' = 0
                        /\ replicate_calls' = [f \in Followers |-> 0]
        /\ UNCHANGED << config, paper_trading, main_pc, follower_clients,
                        successful_replications, failed_replications,
                        daily_trades_count, daily_pnl, placed_orders, failed_orders,
                        cur, rt, order_params, attempt, last_error, place_invoked,
                        call_attempts, calls, results, notified, connVars,
                        handlerVars, paceVars, shutdown_wait, quietVars >>

\* Loop body of _on_master_trade: replicate_trade on the next follower client.
FanOutReplicate ==
    /\ pc = "fanout"
    /\ idx <= Len(follower_clients)
    /\ ReplicateBegin(follower_clients[idx], trade_data)
    /\ UNCHANGED << config, paper_trading, main_pc, follower_clients,
                    processed_orders, total_trades_processed,
                    successful_replications, failed_replications, trade_data,
                    callbacks, redelivered, calls, otherVars >>

\* Mutant: the event counts as successful when any follower succeeded.
AnySucceeded(count, clients) == count > 0

\* "successful_count == len(self.follower_clients)"
AllSucceeded(count, clients) == count = Len(clients)

\* After the loop of _on_master_trade: the statistics update; the handler
\* returns and its locals go out of scope.
FanOutFinish ==
    /\ pc = "fanout"
    /\ idx > Len(follower_clients)
    /\ pc' = "idle"
    /\ IF AllSucceeded(successful_count, follower_clients)
       THEN /\ successful_replications' = successful_replications + 1
            /\ UNCHANGED failed_replications
       ELSE /\ failed_replications' = failed_replications + 1
            /\ UNCHANGED successful_replications
    /\ trade_data' = NoTrade
    /\ idx' = 0
    /\ successful_count' = 0
    /\ cur' = "none"
    /\ rt' = NoCall
    /\ order_params' = NoParams
    /\ attempt' = 0
    /\ last_error' = NoError
    /\ call_attempts' = 0
    /\ replicate_calls' = [f \in Followers |-> 0]
    /\ results' = << >>
    /\ event_now' = [weekday |-> -1, time |-> -1]
    /\ UNCHANGED << config, paper_trading, main_pc, follower_clients,
                    processed_orders, total_trades_processed, daily_trades_count,
                    daily_pnl, placed_orders, failed_orders, callbacks,
                    redelivered, place_invoked, calls, notified, connVars,
                    handlerVars, paceVars, shutdown_wait, quietVars >>

\* How "self.monitor_thread.join(timeout=10)" can end: there is a monitor
\* thread only once start_system has started it; it exits on its own within
\* its sleep, or the 10 seconds expire first.
JoinResults(position) ==
    IF position = "running" THEN {"monitor_exited", "timeout"} ELSE {"no_thread"}

\* shutdown, called by run() when start_system has failed or by the signal
\* handler while the system runs: the flags are set, the leader feed is
\* stopped (no further order update is delivered), the monitor thread is
\* joined and shutdown returns.  The thread of the feed handler is not joined.
Shutdown ==
    \E joined \in JoinResults(main_pc) :
        /\ main_pc \in {"running", "failed"}
        /\ main_pc' = "stopped"
        /\ shutdown_wait' = joined
        /\ UNCHANGED << config, paper_trading, follower_clients, processed_orders,
                        total_trades_processed, successful_replications,
                        failed_replications, daily_trades_count, daily_pnl,
                        placed_orders, failed_orders, pc, trade_data, idx,
                        successful_count, cur, rt, order_params, attempt,
                        last_error, callbacks, redelivered, replicate_calls,
                        place_invoked, call_attempts, calls, results, notified,
                        connVars, handlerVars, paceVars, restVars >>

---------------------------------------------------------------------------
(* Spec: the system *)

\* The environments drawn for FOLLOWER_1 and for FOLLOWER_2.
SysEnvs ==
    [ F1 |-> {DefaultEnv, HalfSmallEnv, DisabledEnv},
      F2 |-> {DefaultEnv, DisabledEnv} ]

\* A raw order update of the leader feed.
Update(status, trade) ==
    [ status           |-> status,
      order_id         |-> trade.order_id,
      tradingsymbol    |-> trade.tradingsymbol,
      exchange         |-> trade.exchange,
      transaction_type |-> trade.transaction_type,
      quantity         |-> trade.quantity,
      quantity_type    |-> trade.quantity_type,
      price            |-> trade.price,
      product          |-> trade.product,
      order_type       |-> trade.order_type ]

\* Per order identity: two valid completed trades, a completed one without
\* quantity, and an update of an order that is still open.
SysUpdates ==
    UNION { { Update("COMPLETE", Trade(o, "NSE", INFY, 1)),
              Update("COMPLETE", Trade(o, "NFO", X24DECCE, 1)),
              Update("COMPLETE", Trade(o, "NSE", INFY, 0)),
              Update("OPEN", Trade(o, "NSE", INFY, 1)) } : o \in OrderIds }

\* datetime.now(): a weekday in market hours, a weekday after the close,
\* a Saturday in market hours, a second before the open and a second after
\* the close of a weekday, a Sunday in market hours.
Clocks ==
    { [weekday |-> 0, time |-> 10 * 3600],
      [weekday |-> 0, time |-> 16 * 3600],
      [weekday |-> 5, time |-> 10 * 3600],
      [weekday |-> 4, time |-> market_start - 1],
      [weekday |-> 4, time |-> market_end + 1],
      [weekday |-> 6, time |-> 10 * 3600] }

SysOutcomes == {Ok, KiteError(503), KiteError(400)}

Init ==
    /\ \E e1 \in SysEnvs["F1"], e2 \in SysEnvs["F2"] :
          config = [f \in Followers |->
                      LoadFollowerConfig(IF f = "F1" THEN e1 ELSE e2)]
    /\ paper_trading \in BOOLEAN
    /\ SystemConstructed
    /\ FollowersConstructed
    /\ FeedIdle
    /\ OthersConstructed
    /\ \E env \in MasterEnvs : master_config = load_master_config(env)
    /\ SystemConfigured

FeedDelivers == \E data \in SysUpdates, now \in Clocks : OnOrderUpdate(data, now)

BrokerResponds ==
    \E outcome \in SysOutcomes :
        PlaceOrderAttempt(outcome) /\ UNCHANGED otherVars

Next ==
    \/ InitializeAccounts
    \/ StartMonitoring
    \/ ResetDailyStats
    \/ ResetWhilePlacing
    \/ FeedDelivers
    \/ FanOutReplicate
    \/ BrokerResponds
    \/ FanOutFinish
    \/ Shutdown

Spec == Init /\ [][Next]_vars

---------------------------------------------------------------------------
(* core/master_client.py: the connection of the leader feed *)

max_reconnect_attempts == 10

\* Attempts _manual_reconnect may make in the model.
MaxManual == 11

\* Timers that may be pending at once in the model.
MaxTimers == 2

\* Attempt numbers KiteTicker reports to on_reconnect.
ReportedCounts == {1, max_reconnect_attempts}

\* What the connection steps leave alone.
notConnVars ==
    << followerVars, processed_orders, callbacks, redelivered, notified, handlerVars,
       paceVars, shutdown_wait, restVars >>

\* "if self.reconnect_count < self.max_reconnect_attempts"
MayReconnect(count) == count < max_reconnect_attempts

\* kws.connect(threaded=True) that returns: the ticker starts connecting.
Connect(state) == IF state \in {"connecting", "open"} THEN state ELSE "connecting"

\* start_monitoring: kite.profile() and kws.connect() succeed (True) or one of
\* them raises (False).
start_monitoring ==
    \E ok \in BOOLEAN :
        /\ kws \in {"new", "closed", "gaveup"}
        /\ kws' = IF ok THEN Connect(kws) ELSE kws
        /\ stopped' = IF ok THEN FALSE ELSE stopped
        /\ manual_attempts' = IF ok THEN 0 ELSE manual_attempts
        /\ UNCHANGED << is_connected, reconnect_count, timers, subscribed, notConnVars >>

\* _on_connect, called by the ticker when the connection is established;
\* kws.subscribe_order_update() returns or raises, the exception is logged.
_on_connect ==
    \E subscribe_ok \in BOOLEAN :
        /\ kws \in {"connecting", "retrying"}
        /\ kws' = "open"
        /\ is_connected' = TRUE
        /\ reconnect_count' = 0
        /\ subscribed' = subscribe_ok
        /\ manual_attempts' = 0
        /\ UNCHANGED << timers, stopped, notConnVars >>

\* _on_close, called by the ticker when the connection is closed; unless the
\* ticker was closed by kws.close() it goes on to retry.
_on_close ==
    /\ kws \in {"connecting", "open", "retrying", "closed"}
    /\ is_connected' = FALSE
    /\ kws' = IF kws = "closed" THEN "closed" ELSE "retrying"
    /\ UNCHANGED << reconnect_count, timers, manual_attempts, stopped, subscribed, notConnVars >>

\* _on_error
_on_error ==
    /\ kws \in {"connecting", "open", "retrying"}
    /\ is_connected' = FALSE
    /\ UNCHANGED << reconnect_count, kws, timers, manual_attempts, stopped,
                    subscribed, notConnVars >>

\* _on_reconnect(ws, reconnect_count)
_on_reconnect ==
    \E count \in ReportedCounts :
        /\ kws = "retrying"
        /\ reconnect_count' = count
        /\ UNCHANGED << is_connected, kws, timers, manual_attempts, stopped,
                        subscribed, notConnVars >>

\* _on_noreconnect: the ticker has given up.
_on_noreconnect ==
    /\ kws = "retrying"
    /\ MayReconnect(reconnect_count) => timers < MaxTimers
    /\ kws' = "gaveup"
    /\ is_connected' = FALSE
    /\ timers' = IF MayReconnect(reconnect_count) THEN timers + 1 ELSE timers
    /\ UNCHANGED << reconnect_count, manual_attempts, stopped, subscribed, notConnVars >>

\* _manual_reconnect, run by a timer: kws.connect() returns or raises; when it
\* raises the next timer is started under the same condition.
_manual_reconnect ==
    \E ok \in BOOLEAN :
        /\ timers > 0
        /\ manual_attempts < MaxManual
        /\ manual_attempts' = manual_attempts + 1
        /\ kws' = IF ok THEN Connect(kws) ELSE kws
        /\ timers' = IF ~ok /\ MayReconnect(reconnect_count) THEN timers ELSE timers - 1
        /\ UNCHANGED << is_connected, reconnect_count, stopped, subscribed, notConnVars >>

\* stop_monitoring: kws.close() returns, or raises and is_connected is left
\* as it was; no timer is cancelled.
stop_monitoring ==
    \E ok \in BOOLEAN :
        /\ stopped' = TRUE
        /\ kws' = IF ok THEN "closed" ELSE kws
        /\ is_connected' = IF ok THEN FALSE ELSE is_connected
        /\ UNCHANGED << reconnect_count, timers, manual_attempts, subscribed, notConnVars >>

InitMaster ==
    /\ config = [f \in Followers |-> LoadFollowerConfig(DefaultEnv)]
    /\ paper_trading = FALSE
    /\ SystemConstructed
    /\ FollowersConstructed
    /\ FeedIdle
    /\ OthersConstructed
    /\ MasterConfigured
    /\ SystemConfigured

NextMaster ==
    \/ start_monitoring
    \/ stop_monitoring
    \/ _on_connect
    \/ _on_close
    \/ _on_error
    \/ _on_reconnect
    \/ _on_noreconnect
    \/ _manual_reconnect

SpecMaster == InitMaster /\ [][NextMaster]_vars

---------------------------------------------------------------------------
(* core/master_client.py: the order update handler with any trade callback *)

\* The try/except around on_trade_callback: an exception is logged.
CallbackTry(outcome) == IF outcome = "raises" THEN "returns" ELSE outcome

\* Mutant: _on_order_update without its outer try/except.
HandlerTryMissing(outcome) == outcome

\* The try/except around the body of _on_order_update: an exception is logged.
HandlerTry(outcome) == IF outcome = "raises" THEN "returns" ELSE outcome

\* _on_order_update(ws, data) on a client constructed with a callback that
\* returns or raises (cb).
HandleOrderUpdate(data, cb) ==
    LET kind   == OrderUpdateKind(data, processed_orders)
        ended  == CASE kind = "valid" /\ cb = "raises"  -> "callback_raised"
                    [] kind = "valid" /\ cb = "returns" -> "callback_returned"
                    [] OTHER                            -> kind
        body   == CASE kind = "validation_raised" -> "raises"
                    [] kind = "valid"             -> CallbackTry(cb)
                    [] OTHER                      -> "returns"
    IN  /\ kws = "open"
        /\ processed_orders' = IF kind \in {"validation_raised", "invalid", "valid"}
                               THEN processed_orders \cup {data.order_id}
                               ELSE processed_orders
        /\ redelivered' = IF kind = "duplicate"
                          THEN redelivered \cup {data.order_id}
                          ELSE redelivered
        /\ callbacks' = IF kind = "valid"
                        THEN [callbacks EXCEPT ![data.order_id] = @ + 1]
                        ELSE callbacks
        /\ handler' = [data |-> data, kind |-> ended, result |-> HandlerTry(body)]
        /\ caught' = IF ended \in {"validation_raised", "callback_raised"}
                     THEN caught \cup {ended}
                     ELSE caught
        /\ UNCHANGED << followerVars, notified, connVars, connection_status, paceVars,
                        shutdown_wait, restVars >>

\* get_connection_status
get_connection_status ==
    /\ connection_status' = [ connected        |-> is_connected,
                              reconnect_count  |-> reconnect_count,
                              processed_orders |-> Cardinality(processed_orders) ]
    /\ UNCHANGED << followerVars, processed_orders, callbacks, redelivered, notified,
                    connVars, handler, caught, paceVars, shutdown_wait, restVars >>

\* Raw updates per order identity: a valid one, one for each defect of a
\* required field, one with a text quantity, one on an unknown exchange and
\* one of an order that is still open.
FeedUpdates ==
    UNION { LET good == Update("COMPLETE", Trade(o, "NSE", INFY, 1))
            IN  { good,
                  [good EXCEPT !.transaction_type = "SELL"],
                  [good EXCEPT !.tradingsymbol = << >>],
                  [good EXCEPT !.exchange = ""],
                  [good EXCEPT !.transaction_type = ""],
                  [good EXCEPT !.transaction_type = "HOLD"],
                  [good EXCEPT !.transaction_type = "buy"],
                  [good EXCEPT !.quantity = 0],
                  [good EXCEPT !.quantity = -1],
                  [good EXCEPT !.product = ""],
                  [good EXCEPT !.quantity_type = "str"],
                  [good EXCEPT !.exchange = "XYZ"],
                  [good EXCEPT !.status = "OPEN"] } : o \in OrderIds }

OrderUpdateArrives ==
    \E data \in FeedUpdates, cb \in {"returns", "raises"} : HandleOrderUpdate(data, cb)

NextFeed ==
    \/ start_monitoring
    \/ _on_connect
    \/ _on_close
    \/ OrderUpdateArrives
    \/ get_connection_status

SpecFeed == InitMaster /\ [][NextFeed]_vars

---------------------------------------------------------------------------
(* utils/automated_token_generator.py: AutomatedKiteSystem.monitor_trades *)

\* The order record the broker reports for order o.
Order(o) ==
    [ order_id      |-> o,
      status        |-> CASE o = 0 -> "OPEN"
                          [] o = 1 -> "complete"
                          [] o = 2 -> "EXECUTED"
                          [] OTHER -> "COMPLETE",
      tradingsymbol |-> INFY ]

\* str.upper() on the statuses above
Upper(status) == IF status = "complete" THEN "COMPLETE" ELSE status

\* generate_order_id: the digest of order id, status and symbol, taken to be
\* distinct for distinct triples.
generate_order_id(order) == << order.order_id, order.status, order.tradingsymbol >>

\* "status in ['COMPLETE', 'EXECUTED'] and order_unique_id not in
\* self.processed_orders"
ShouldNotify(order, processed) ==
    /\ Upper(order.status) \in {"COMPLETE", "EXECUTED"}
    /\ generate_order_id(order) \notin processed

\* Mutant: the processed set is never cut.
NeedsCleanupNever(processed) == FALSE

\* "if len(self.processed_orders) > 50"
NeedsCleanup(processed) == Cardinality(processed) > 50

\* "set(list(self.processed_orders)[-25:])": the last 25 entries in the
\* iteration order of the set.  A set of strings iterates in the order of
\* their hashes; two of the possible orders are drawn, ascending and
\* descending in order id.
LastEntries(processed, iteration) ==
    LET Before(x, y) == IF iteration = "ascending" THEN x[1] < y[1] ELSE x[1] > y[1]
    IN  { x \in processed : Cardinality({ y \in processed : Before(x, y) }) < 25 }

\* Orders for which the Telegram request of a poll fails: none, all, one.
SendFailures == { {}, OrderNumbers, {3} }

\* monitor_trades with the kite client initialized.  kite.orders() raises, or
\* returns order 0 and the completed orders, possibly followed by a record
\* whose status is not a string, on which the loop raises: the exception is
\* logged and the cleanup is skipped.  Every order to notify is sent, and is
\* added to processed_orders when send_trade_notification returned True.
monitor_trades ==
    \E reply \in {"orders", "raises", "malformed"}, failing \in SendFailures,
       iteration \in {"ascending", "descending"} :
        LET orders    == IF reply = "raises" THEN {} ELSE 0..kite_orders
            delivered == { o \in orders :
                             /\ ShouldNotify(Order(o), aks_processed_orders)
                             /\ o \notin failing }
            after     == aks_processed_orders
                             \cup { generate_order_id(Order(o)) : o \in delivered }
        IN  /\ polls < MaxPolls
            /\ polls' = polls + 1
            /\ sent' = [o \in OrderNumbers |->
                           IF o \in delivered THEN sent[o] + 1 ELSE sent[o]]
            /\ aks_processed_orders' =
                   IF reply = "orders" /\ NeedsCleanup(after)
                   THEN LastEntries(after, iteration)
                   ELSE after
            /\ poll_ended' = IF reply = "orders" THEN "completed" ELSE "raised"
            /\ UNCHANGED << kite_orders, followerVars, processed_orders, callbacks,
                            redelivered, notified, connVars, handlerVars, paceVars,
                            shutdown_wait, master_config,
                            config_max_daily_trades, realized_pnl, event_now >>

\* Orders of the account complete, 25 or 26 at a time: kite.orders() reports
\* them from now on.
OrdersComplete ==
    \E n \in {25, 26} :
        /\ kite_orders + n <= MaxOrders
        /\ kite_orders' = kite_orders + n
        /\ UNCHANGED << aks_processed_orders, sent, polls, poll_ended, followerVars,
                        processed_orders, callbacks, redelivered, notified, connVars,
                        handlerVars, paceVars, shutdown_wait, master_config,
                            config_max_daily_trades, realized_pnl, event_now >>

InitMonitor == InitMaster

NextMonitor ==
    \/ monitor_trades
    \/ OrdersComplete

SpecMonitor == InitMonitor /\ [][NextMonitor]_vars

---------------------------------------------------------------------------
(* follower_client.py: the follower with its clock (SpecPacing) *)

\* The clock stops here in the model.
MaxTime == 16

\* Mutant: no rate limiting wait.
TimeToWaitNone(current_time, last, interval) == 0

\* The rate limiting check of _check_risk_limits: the argument of time.sleep,
\* 0 when it does not sleep.
TimeToWait(current_time, last, interval) ==
    IF current_time - last < interval THEN interval - (current_time - last) ELSE 0

\* Seconds slept before the next attempt: (2 ** attempt) * 1 after a
\* retryable KiteException, 1 after another exception.
Backoff(outcome, a) == IF outcome.kind = "kite" THEN 2 ^ a ELSE 1

PacedOutcomes == {Ok, KiteError(503), KiteError(400), OtherError}

PacedEnvs == {DefaultEnv, HalfSmallEnv}

InitPacing ==
    /\ \E env \in PacedEnvs :
          config = [f \in Followers |->
                      LoadFollowerConfig(IF f = "F1" THEN env ELSE DefaultEnv)]
    /\ paper_trading = FALSE
    /\ SystemConstructed
    /\ FollowersConstructed
    /\ FeedIdle
    /\ OthersConstructed
    /\ MasterConfigured
    /\ SystemConfigured

\* Time passes between two calls.
Tick ==
    /\ pc = "idle"
    /\ clock < MaxTime
    /\ clock' = clock + 1
    /\ UNCHANGED << followerVars, processed_orders, callbacks, redelivered, notified,
                    connVars, handlerVars, last_order_time, arrived_at,
                    prior_order_time, place_times, shutdown_wait, restVars >>

\* replicate_trade called at time clock: when the risk check passes it sleeps
\* for TimeToWait, or longer by over, before it returns.
PacedReplicate ==
    \E trade \in FollowerTrades, over \in {0, 1} :
        /\ pc = "idle"
        /\ calls < MaxCalls
        /\ calls' = calls + 1
        /\ trade_data' = trade
        /\ ReplicateBegin("F1", trade)
        /\ LET wait == IF rt'.risk_check_passed
                       THEN TimeToWait(clock, last_order_time["F1"],
                                       min_order_interval * TicksPerSecond)
                       ELSE 0
           IN  clock' = IF wait > 0 THEN clock + wait + over ELSE clock
        /\ clock' <= MaxTime
        /\ arrived_at' = clock
        /\ prior_order_time' = last_order_time["F1"]
        /\ place_times' = {}
        /\ UNCHANGED << config, paper_trading, main_pc, follower_clients,
                        processed_orders, total_trades_processed,
                        successful_replications, failed_replications, callbacks,
                        redelivered, notified, connVars, handlerVars,
                        last_order_time, shutdown_wait, restVars >>

\* One attempt of _place_order_with_retry with its timing: kite.place_order is
\* called at time clock and takes dur; on success last_order_time is set, on a
\* retried failure the backoff is slept.
PacedBrokerAnswers ==
    \E outcome \in PacedOutcomes, dur \in {0, 1} :
        /\ PlaceOrderAttempt(outcome)
        /\ place_times' = place_times \cup {clock}
        /\ clock' = IF outcome.kind # "ok" /\ ShouldRetry(outcome, attempt)
                  THEN clock + dur + Backoff(outcome, attempt) * TicksPerSecond
                  ELSE clock + dur
        /\ clock' <= MaxTime
        /\ last_order_time' = IF outcome.kind = "ok"
                              THEN [last_order_time EXCEPT ![cur] = clock + dur]
                              ELSE last_order_time
        /\ UNCHANGED << arrived_at, prior_order_time, notified, connVars, handlerVars,
                        shutdown_wait, restVars >>

NextPacing ==
    \/ Tick
    \/ PacedReplicate
    \/ PacedBrokerAnswers

SpecPacing == InitPacing /\ [][NextPacing]_vars

---------------------------------------------------------------------------
(* Claims *)

PlacedFor(f, o) ==
    {i \in DOMAIN placed_orders[f] : placed_orders[f][i].params.tag[2] = o}

\* C1: every order identity reaches the trade callback at most once, however
\* often it is delivered, and no follower holds more than one placed order
\* for it.
C1_AtMostOnce ==
    \A o \in OrderIds :
        /\ callbacks[o] <= 1
        /\ \A f \in Followers : Cardinality(PlacedFor(f, o)) <= 1

\* An order that was replicated to a follower and then delivered again, the
\* handler having returned.
C1_Witness ==
    \E o \in OrderIds :
        /\ o \in redelivered
        /\ callbacks[o] = 1
        /\ pc = "idle"
        /\ \E f \in Followers : PlacedFor(f, o) # {}

\* C2: in paper-trading mode no replicate_trade and no place_order happens on
\* any follower, whatever the feed delivers.
C2_PaperNoOrders ==
    paper_trading =>
        /\ place_invoked = {}
        /\ pc = "idle"
        /\ \A f \in Followers : replicate_calls[f] = 0 /\ placed_orders[f] = << >>

\* A valid trade was handed to _on_master_trade in paper-trading mode.
C2_Witness == paper_trading /\ total_trades_processed > 0

\* The limit that applies to the trade of the last replicate_trade call:
\* the segment's entry in segment_limits, else max_position_size.
LimitOfCall ==
    DictGet(config[cur].segment_limits, rt.trade.exchange,
            config[cur].max_position_size)

\* The multiplier that applies to the trade of the last replicate_trade call.
MultiplierOfCall ==
    DictGet(config[cur].segment_multipliers, rt.trade.exchange,
            config[cur].multiplier)

\* C3: whenever replicate_trade goes on to place an order, the order's
\* quantity is between 0 and the follower's limit for the trade's segment.
C3_QuantityWithinLimit ==
    rt.places =>
        /\ 0 <= rt.params.quantity
        /\ rt.params.quantity <= LimitOfCall

\* C4: one call of _place_order_with_retry calls place_order at most 3 times,
\* whatever the broker answers.
C4_RetryCeiling == call_attempts <= 3

\* A submit call that used all three attempts and failed.
C4_Witness ==
    /\ call_attempts = 3
    /\ pc = "idle"
    /\ last_error = KiteError(503)
    /\ failed_orders["F1"] # << >>
    /\ failed_orders["F1"][Len(failed_orders["F1"])].error = KiteError(503)

\* C5 as claimed: a second or third attempt is made only after an attempt
\* that failed with one of the transient codes.
C5_RetryOnlyTransient ==
    (pc = "place" /\ attempt > 0) =>
        /\ last_error.kind = "kite"
        /\ last_error.code \in {429, 500, 502, 503, 504}

\* C5 amended: a second or third attempt is made only after an attempt that
\* failed with a KiteException carrying one of the transient codes or with an
\* exception that is not a KiteException; a KiteException with any other code
\* ends the call.
C5_RetryOnlyTransientOrUnexpected ==
    (pc = "place" /\ attempt > 0) =>
        \/ last_error.kind = "kite" /\ last_error.code \in {429, 500, 502, 503, 504}
        \/ last_error.kind = "other"

\* A third attempt is about to be made after a transient broker error.
C5_Witness ==
    /\ pc = "place"
    /\ attempt = 2
    /\ last_error.kind = "kite"
    /\ last_error.code = 504

\* C6: a trade whose segment is not among the follower's enabled segments is
\* denied and never reaches the order placement, whatever the quantity, the
\* multiplier and the limit.
C6_DisabledSegmentVeto ==
    (calls = 1 /\ rt.trade.exchange \notin config["F1"].enabled_segments) =>
        /\ ~rt.risk_check_passed
        /\ ~rt.places

\* A trade denied by the segment check alone: the account is enabled, the cap
\* is not reached and the adjusted quantity is within the limit.
C6_Witness ==
    /\ calls = 1
    /\ rt.trade.exchange \notin config["F1"].enabled_segments
    /\ config["F1"].enabled
    /\ daily_trades_count["F1"] < max_daily_trades
    /\ IntMul(rt.trade.quantity, MultiplierOfCall) <= LimitOfCall
    /\ rt.risk_message.text = "Trading disabled for segment"

\* C7: a replicate_trade call made while the follower's daily count is at or
\* above the cap is denied, does not enter the order placement and leaves the
\* count and the placed orders as they were.
C7_CapDenies ==
    [][ (daily_trades_count["F1"] >= max_daily_trades /\ calls' # calls) =>
            /\ ~rt'.risk_check_passed
            /\ pc' = "idle"
            /\ call_attempts' = call_attempts
            /\ daily_trades_count' = daily_trades_count
            /\ placed_orders' = placed_orders ]_vars

\* A call denied by the cap after the count reached it.
C7_Witness ==
    /\ calls = 2
    /\ pc = "idle"
    /\ daily_trades_count["F1"] = max_daily_trades
    /\ rt.risk_message.text = "Daily trade limit reached"

\* C8: a follower whose configuration has enabled = false is never made a
\* client, replicate_trade is never called on it and place_order is never
\* invoked on its account.
C8_DisabledNeverPlaces ==
    \A f \in Followers :
        ~config[f].enabled =>
            /\ ~IsClient(f)
            /\ replicate_calls[f] = 0
            /\ f \notin place_invoked

\* A disabled follower beside a follower that an order was placed for.
C8_Witness ==
    \E f, g \in Followers :
        /\ ~config[f].enabled
        /\ g \in place_invoked
        /\ placed_orders[g] # << >>

\* C9: when 0 < m * q < 1 for the applicable multiplier m and the leader
\* quantity q, the quantity computed for the follower order is exactly 1.
C9_ClampToOne ==
    (rt.calculated /\ 0 < MultiplierOfCall.n * rt.trade.quantity
                   /\ MultiplierOfCall.n * rt.trade.quantity < MultiplierOfCall.d) =>
        rt.adjusted_quantity = 1

\* A trade with 0 < m * q < 1 whose order goes on to be placed.
C9_Witness ==
    /\ rt.calculated
    /\ 0 < MultiplierOfCall.n * rt.trade.quantity
    /\ MultiplierOfCall.n * rt.trade.quantity < MultiplierOfCall.d
    /\ rt.places
    /\ rt.params.quantity = 1

\* C10: during a fan-out replicate_trade has been called exactly once on
\* every client the loop has reached and not yet on the others, so that at
\* the end of the loop it has been called exactly once on every client,
\* whatever the earlier followers returned.
C10_EveryClientOnce ==
    pc \in {"fanout", "place"} =>
        \A i \in 1..Len(follower_clients) :
            replicate_calls[follower_clients[i]] =
                IF i < idx \/ (i = idx /\ pc = "place") THEN 1 ELSE 0

\* The loop has ended over two clients: the first failed or was denied, the
\* second was still called and succeeded.
C10_Witness ==
    /\ pc = "fanout"
    /\ Len(follower_clients) = 2
    /\ idx = 3
    /\ successful_count = 1
    /\ cur = follower_clients[2]
    /\ last_error = Ok
    /\ replicate_calls[follower_clients[2]] = 1

\* Every client of the fan-out has returned success for the current event.
EveryFollowerSucceeded ==
    \A i \in 1..Len(follower_clients) :
        \E j \in 1..Len(results) :
            results[j].user_id = follower_clients[i] /\ results[j].success

\* C11: the step that ends the fan-out of an event increments exactly one of
\* successful_replications and failed_replications, by one: the first if and
\* only if every follower's replicate_trade returned success, the second
\* otherwise; no other step of the fan-out changes either counter.
C11_ExactlyOneCounter ==
    [][ IF pc = "fanout" /\ pc' = "idle"
        THEN /\ successful_replications' =
                    successful_replications + (IF EveryFollowerSucceeded THEN 1 ELSE 0)
             /\ failed_replications' =
                    failed_replications + (IF EveryFollowerSucceeded THEN 0 ELSE 1)
        ELSE /\ successful_replications' = successful_replications
             /\ failed_replications' = failed_replications ]_vars

\* Two events have gone through a fan-out over two clients: one succeeded on
\* both, the other on one of them only.
C11_Witness ==
    /\ pc = "idle"
    /\ Len(follower_clients) = 2
    /\ successful_replications = 1
    /\ failed_replications = 1
    /\ \E f, g \in Followers : Len(placed_orders[f]) = 2 /\ Len(placed_orders[g]) = 1

\* C12: every event whose fan-out has ended has been reported to the notifier
\* exactly once, with one result record per follower client.
C12_NotifiedOncePerEvent ==
    /\ Len(notified) = successful_replications + failed_replications
    /\ \A n \in 1..Len(notified) :
           Len(notified[n].results) = Len(follower_clients)

\* C13: after the feed is lost the connector makes no more reconnection
\* attempts of its own than its budget of 10.
C13_BoundedReconnects == manual_attempts <= 10

\* C14: once stop_monitoring has been called, and until start_monitoring is
\* called again, the client reports disconnected and its ticker is neither
\* connecting nor connected.
C14_StopStaysDisconnected ==
    stopped => (~is_connected /\ kws \notin {"connecting", "open"})

\* C15: no _on_order_update call ends with an exception, whether the trade
\* callback raised or the validation of malformed data did, and
\* get_connection_status returns the client's fields.
C15_NoExceptionEscapes ==
    /\ handler.result # "raises"
    /\ connection_status # NoStatus =>
          /\ connection_status.connected \in BOOLEAN
          /\ connection_status.processed_orders \in 0..Cardinality(processed_orders)

\* The validation raised on one update, the callback raised on a later one,
\* the handler returned both times and the status was read afterwards.
C15_Witness ==
    /\ caught = {"validation_raised", "callback_raised"}
    /\ handler.kind = "callback_raised"
    /\ handler.result = "returns"
    /\ connection_status.processed_orders = 2

\* A COMPLETE update without symbol, exchange, side or quantity, with a
\* quantity <= 0 or with a side other than BUY and SELL.
Defective(data) ==
    /\ data.status = "COMPLETE"
    /\ \/ data.tradingsymbol = << >>
       \/ data.exchange = ""
       \/ data.transaction_type \notin {"BUY", "SELL"}
       \/ data.quantity_type = "int" /\ data.quantity <= 0

\* C16: handling a defective COMPLETE update invokes no trade callback and
\* changes no follower's orders.
C16_DefectiveRejected ==
    [][ Defective(handler'.data) =>
            /\ callbacks' = callbacks
            /\ placed_orders' = placed_orders
            /\ handler'.kind \in {"duplicate", "invalid"} ]_vars

\* An update with a side that is neither BUY nor SELL was handled as the
\* first update of its order and rejected.
C16_Witness ==
    /\ Defective(handler.data)
    /\ handler.data.transaction_type = "HOLD"
    /\ handler.kind = "invalid"
    /\ callbacks[handler.data.order_id] = 0
    /\ handler.data.order_id \in processed_orders

\* The last replicate_trade call got as far as the instrument checks: the
\* account and the segment are enabled, the daily cap is not reached and the
\* adjusted quantity is within the segment limit.
ReachedInstrumentChecks ==
    /\ calls = 1
    /\ config[cur].enabled
    /\ rt.trade.exchange \in config[cur].enabled_segments
    /\ daily_trades_count[cur] < max_daily_trades
    /\ IntMul(rt.trade.quantity, MultiplierOfCall) <= LimitOfCall

AdjustedOfCall == IntMul(rt.trade.quantity, MultiplierOfCall)

\* The symbol ends in CE or PE.
EndsInCallPutSuffix(symbol) ==
    /\ Len(symbol) >= 2
    /\ SubSeq(symbol, Len(symbol) - 1, Len(symbol)) \in { << "C","E" >>, << "P","E" >> }

\* C17: on NFO/BFO a symbol that ends in CE or PE is allowed exactly when the
\* adjusted quantity is within half the segment limit, and any other symbol
\* is allowed whenever it is within the full segment limit.
C17_OptionsLimitBySuffix ==
    (ReachedInstrumentChecks /\ rt.trade.exchange \in {"NFO", "BFO"}) =>
        IF EndsInCallPutSuffix(rt.trade.tradingsymbol)
        THEN rt.risk_check_passed <=> AdjustedOfCall <= LimitOfCall \div 2
        ELSE rt.risk_check_passed

\* The symbol contains the name of a high-risk commodity.
MatchesHighRiskList(symbol) ==
    \E commodity \in { << "C","R","U","D","E","O","I","L" >>,
                       << "N","A","T","U","R","A","L","G","A","S" >>,
                       << "G","O","L","D" >>,
                       << "S","I","L","V","E","R" >> } : IsSubstring(commodity, symbol)

\* C18: an MCX trade in a high-risk commodity whose adjusted quantity is
\* within the segment limit is allowed exactly when the adjusted quantity is
\* within half the segment limit, and when denied the reason is the high-risk
\* commodity reason.
C18_HighRiskHalfLimit ==
    ( /\ ReachedInstrumentChecks
      /\ rt.trade.exchange = "MCX"
      /\ MatchesHighRiskList(rt.trade.tradingsymbol) ) =>
        /\ rt.risk_check_passed <=> AdjustedOfCall <= LimitOfCall \div 2
        /\ ~rt.risk_check_passed =>
              rt.risk_message.text = "High-risk commodity limit exceeded"

\* GOLD24DECFUT, quantity 10, multiplier 20, limit 200: the adjusted quantity
\* 200 passes the segment limit and is denied by the high-risk limit of 100.
C18_Witness ==
    /\ ReachedInstrumentChecks
    /\ rt.trade.exchange = "MCX"
    /\ rt.trade.tradingsymbol = GOLD24DECFUT
    /\ LimitOfCall = 200
    /\ AdjustedOfCall = 200
    /\ ~rt.risk_check_passed
    /\ rt.risk_message.text = "High-risk commodity limit exceeded"

\* The call began less than min_order_interval after the follower's last
\* order placement.
ArrivedEarly ==
    /\ calls > 0
    /\ prior_order_time > 0
    /\ arrived_at - prior_order_time < min_order_interval * TicksPerSecond

\* C19: every place_order call of a replicate_trade call is made at least
\* min_order_interval after the follower's last order placement, and a call
\* that began earlier than that and was not denied has still placed its order
\* when it returns.
C19_PacingInterval ==
    /\ \A t \in place_times :
           t - prior_order_time >= min_order_interval * TicksPerSecond
    /\ (ArrivedEarly /\ rt.places /\ pc = "idle") => place_times # {}

\* A second event arrived within the interval of the first placement, was
\* delayed and then placed.
C19_Witness ==
    /\ ArrivedEarly
    /\ pc = "idle"
    /\ last_error = Ok
    /\ Len(placed_orders["F1"]) = 2
    /\ place_times # {}

\* C20: once shutdown has returned, a follower submission is still under way
\* only if the 10 second wait expired, and from then on replicate_trade is
\* not called on any follower.
C20_ShutdownWaitsForSubmissions ==
    /\ [](  (main_pc = "stopped" /\ pc \in {"fanout", "place"}) =>
                shutdown_wait = "timeout" )
    /\ [][ main_pc = "stopped" => replicate_calls' = replicate_calls ]_vars

\* A required master credential is missing or blank.
CredentialMissing ==
    \E field \in {master_config.api_key, master_config.api_secret,
                  master_config.access_token, master_config.user_id} :
        \A i \in 1..Len(field) : field[i] \in Whitespace

\* C21: with a required master credential missing or blank, or with no usable
\* follower account (no client could be created), the start fails:
\* initialize_accounts takes start_system to its failure return, the system
\* never reaches the start_monitoring call or a later position, and no order
\* update is ever handled.
C21_NoFeedWithoutCredentials ==
    /\ [](CredentialMissing \/ follower_clients = << >>
            => /\ main_pc \in {"constructed", "failed", "stopped"}
               /\ processed_orders = {}
               /\ \A o \in OrderIds : callbacks[o] = 0)
    /\ [][main_pc = "constructed" /\ (CredentialMissing \/ follower_clients' = << >>)
            => main_pc' = "failed"]_vars

C21_Witness ==
    /\ main_pc = "failed"
    /\ CredentialMissing
    /\ \E f \in Followers : config[f].enabled

\* C22: a completed order that kite.orders() keeps returning is notified at
\* most once successfully, whatever the number of polls.
C22_NotifiedOnce == \A o \in OrderNumbers : sent[o] <= 1

\* C23: after a monitor_trades call that ran to its end processed_orders
\* holds at most 50 entries, and exactly 25 when it held more than 50 after
\* the loop of the call.
C23_ProcessedBounded ==
    /\ [](poll_ended = "completed" => Cardinality(aks_processed_orders) <= 50)
    /\ [][LET notified_now == { o \in OrderNumbers : sent'[o] > sent[o] }
              after_loop   == aks_processed_orders
                                  \cup { generate_order_id(Order(o)) : o \in notified_now }
          IN  polls' # polls /\ poll_ended' = "completed"
                  => IF Cardinality(after_loop) > 50
                     THEN /\ Cardinality(aks_processed_orders') = 25
                          /\ aks_processed_orders' \subseteq after_loop
                     ELSE aks_processed_orders' = after_loop]_vars

C23_Witness ==
    /\ poll_ended = "completed"
    /\ Cardinality(aks_processed_orders) = 25
    /\ Cardinality({ o \in OrderNumbers : sent[o] > 0 }) > 50

\* C24: an order identity is in the processed-order set only if its event
\* passed validation and was handed to the trade callback.
C24_ProcessedOnlyIfReplicated ==
    \A o \in processed_orders : callbacks[o] >= 1

\* C25: the client reports itself connected only when the subscription to
\* order updates of its last connect succeeded.
C25_ConnectedOnlyWhenSubscribed == is_connected => subscribed

\* C26: handling an update whose status is not COMPLETE changes neither the
\* processed-order set nor any follower or counter and invokes no callback;
\* a valid COMPLETE update of the same, unprocessed order handled next
\* reaches the callback.
C26_NonCompleteNoEffect ==
    [][ /\ handler'.data.status \notin {"none", "COMPLETE"}
            => UNCHANGED << processed_orders, callbacks, redelivered, followerVars >>
        /\ \A o \in OrderIds :
               /\ handler.data = Update("OPEN", Trade(o, "NSE", INFY, 1))
               /\ handler'.data = Update("COMPLETE", Trade(o, "NSE", INFY, 1))
               /\ o \notin processed_orders
               => callbacks'[o] = callbacks[o] + 1 ]_vars

\* An open order's update was handled, nothing being processed yet.
C26_Witness ==
    /\ handler.data.status = "OPEN"
    /\ handler.kind = "ignored"
    /\ handler.result = "returns"
    /\ processed_orders = {}
    /\ \A o \in OrderIds : callbacks[o] = 0

\* What a follower client records about its trading.
FollowerRecords ==
    << daily_trades_count, daily_pnl, last_order_time, placed_orders, failed_orders >>

\* C27: a replicate_trade call that the risk check denies returns leaving the
\* follower's daily_trades_count, daily_pnl, last_order_time, placed_orders
\* and failed_orders as they were; these change only in a step of the order
\* placement.
C27_DeniedLeavesFollower ==
    [][ /\ calls' = calls + 1 /\ ~rt'.risk_check_passed
            => pc' = "idle" /\ UNCHANGED FollowerRecords
        /\ FollowerRecords' # FollowerRecords => pc = "place" ]_vars

\* A call was denied on a follower that had placed an order before.
C27_Witness ==
    /\ calls = 2
    /\ pc = "idle"
    /\ ~rt.risk_check_passed
    /\ daily_trades_count["F1"] = 1
    /\ Len(placed_orders["F1"]) = 1
    /\ last_order_time["F1"] > 0

\* kite.place_order is called in this step.
AttemptStep == pc = "place" /\ call_attempts' = call_attempts + 1

\* C28: the attempt of a submit call that succeeds appends exactly one record,
\* holding the order parameters, to placed_orders, adds one to
\* daily_trades_count, sets last_order_time to the time of the return of
\* place_order and leaves failed_orders alone; an attempt that is retried
\* changes none of them, so the same holds of the whole call after transient
\* failures.
C28_SuccessRecordedOnce ==
    [][ /\ AttemptStep /\ last_error'.kind = "ok"
            => /\ pc' = "idle"
               /\ Len(placed_orders'[cur]) = Len(placed_orders[cur]) + 1
               /\ SubSeq(placed_orders'[cur], 1, Len(placed_orders[cur]))
                      = placed_orders[cur]
               /\ placed_orders'[cur][Len(placed_orders'[cur])].params = order_params
               /\ daily_trades_count'[cur] = daily_trades_count[cur] + 1
               /\ last_order_time'[cur] \in clock..clock'
               /\ failed_orders' = failed_orders
               /\ daily_pnl' = daily_pnl
               /\ \A f \in Followers \ {cur} :
                      /\ placed_orders'[f] = placed_orders[f]
                      /\ daily_trades_count'[f] = daily_trades_count[f]
                      /\ last_order_time'[f] = last_order_time[f]
        /\ AttemptStep /\ pc' = "place" => UNCHANGED FollowerRecords ]_vars

\* A submit call succeeded at its third attempt.
C28_Witness ==
    /\ pc = "idle"
    /\ last_error = Ok
    /\ call_attempts = 3
    /\ Len(placed_orders["F1"]) = 1
    /\ daily_trades_count["F1"] = 1
    /\ last_order_time["F1"] > 0
    /\ failed_orders["F1"] = << >>

\* C29: the attempt that ends a submit call in failure appends exactly one
\* record, holding the order parameters and that last error, to
\* failed_orders, leaves placed_orders, daily_trades_count and
\* last_order_time alone and returns; the attempts before it appended nothing.
C29_FailureRecordedOnce ==
    [][ /\ AttemptStep /\ pc' # "place" /\ last_error'.kind # "ok"
            => /\ pc' = "idle"
               /\ failed_orders' =
                      [failed_orders EXCEPT ![cur] =
                          Append(@, [params |-> order_params, error |-> last_error'])]
               /\ UNCHANGED << placed_orders, daily_trades_count, last_order_time,
                               daily_pnl >>
        /\ AttemptStep /\ pc' = "place" => failed_orders' = failed_orders ]_vars

\* A submit call failed with a retryable error on each of its three attempts.
C29_Witness ==
    /\ pc = "idle"
    /\ last_error = KiteError(503)
    /\ call_attempts = 3
    /\ Len(failed_orders["F1"]) = 1
    /\ failed_orders["F1"][1].error = KiteError(503)
    /\ placed_orders["F1"] = << >>

\* Values of daily_pnl at, above and below the daily loss floor.
PnlValues == {0, -max_daily_loss, -max_daily_loss - 1}

\* The checks, numbered in the fixed order, that fail for the trade of the
\* last replicate_trade call when the follower's daily_pnl is pnl: 1 follower
\* disabled, 2 segment not enabled, 3 daily cap reached, 4 segment limit
\* exceeded, 5 instrument-class limit exceeded, 6 daily loss floor breached.
FailingChecks(pnl) ==
    LET exchange == rt.trade.exchange
        symbol   == rt.trade.tradingsymbol
    IN  { i \in 1..6 :
            \/ i = 1 /\ ~config[cur].enabled
            \/ i = 2 /\ exchange \notin config[cur].enabled_segments
            \/ i = 3 /\ daily_trades_count[cur] >= max_daily_trades
            \/ i = 4 /\ AdjustedOfCall > LimitOfCall
            \/ /\ i = 5
               /\ \/ /\ exchange = "MCX"
                     /\ MatchesHighRiskList(symbol)
                     /\ AdjustedOfCall > LimitOfCall \div 2
                  \/ /\ exchange \in {"NFO", "BFO"}
                     /\ EndsInCallPutSuffix(symbol)
                     /\ AdjustedOfCall > LimitOfCall \div 2
                  \/ /\ exchange = "CDS"
                     /\ AdjustedOfCall > LimitOfCall
            \/ i = 6 /\ pnl < -max_daily_loss }

\* The check a denial reason belongs to.
CheckOfReason(text) ==
    CASE text = "Account is disabled"                -> 1
      [] text = "Trading disabled for segment"       -> 2
      [] text = "Daily trade limit reached"          -> 3
      [] text = "Position size limit exceeded for"   -> 4
      [] text = "High-risk commodity limit exceeded" -> 5
      [] text = "Options position limit exceeded"    -> 5
      [] text = "Currency position limit exceeded"   -> 5
      [] text = "Daily loss limit reached"           -> 6
      [] OTHER                                       -> 0

\* C30: when several checks fail for the follower and trade of a
\* replicate_trade call, the risk check denies the trade with the reason of
\* the earliest failing check in the fixed order, whatever the daily_pnl.
C30_EarliestReason ==
    calls = 1 =>
        \A pnl \in PnlValues :
            LET failing == FailingChecks(pnl)
                risk    == _check_risk_limits(config[cur], daily_trades_count[cur],
                                              pnl, rt.trade)
            IN  /\ Cardinality(failing) >= 2
                    => /\ ~risk.passed
                       /\ \A i \in failing : CheckOfReason(risk.message.text) <= i
                       /\ CheckOfReason(risk.message.text) \in failing
                /\ pnl = daily_pnl[cur]
                    => /\ rt.risk_check_passed = risk.passed
                       /\ rt.risk_message = risk.message

\* The follower is disabled, the trade's segment is not enabled, the daily
\* cap is reached and the adjusted quantity is above the segment limit: the
\* reason given is that the account is disabled.
C30_Witness ==
    /\ calls = 1
    /\ {1, 2, 3, 4} \subseteq FailingChecks(daily_pnl[cur])
    /\ 6 \in FailingChecks(-max_daily_loss - 1)
    /\ ~rt.risk_check_passed
    /\ rt.risk_message.text = "Account is disabled"

\* The quantity of the order for an unclamped adjusted quantity: at least 1
\* under a positive multiplier.
AtLeastOne(quantity) ==
    IF quantity < 1 /\ MultiplierOfCall.n > 0 THEN 1 ELSE quantity

\* The checks before the segment limit pass for the last call.
ReachedLimitCheck ==
    /\ calls = 1
    /\ config[cur].enabled
    /\ rt.trade.exchange \in config[cur].enabled_segments
    /\ daily_trades_count[cur] < max_daily_trades

\* The adjusted quantity of the last call is rounded(leader quantity * m), m
\* being the override of the trade's segment if there is one and the base
\* multiplier otherwise: the limit check compares it with the limit, and the
\* quantity calculated for the order is it, raised to 1 under a positive
\* multiplier.
AdjustedIs(rounded(_, _)) ==
    LET m        == IF rt.trade.exchange \in DOMAIN config[cur].segment_multipliers
                    THEN config[cur].segment_multipliers[rt.trade.exchange]
                    ELSE config[cur].multiplier
        adjusted == rounded(rt.trade.quantity * m.n, m.d)
    IN  /\ ReachedLimitCheck /\ adjusted > LimitOfCall
            => /\ ~rt.risk_check_passed
               /\ rt.risk_message = Msg("Position size limit exceeded for",
                                        << rt.trade.exchange, adjusted, LimitOfCall >>)
        /\ ReachedLimitCheck /\ rt.risk_check_passed => adjusted <= LimitOfCall
        /\ calls = 1 /\ rt.calculated => rt.adjusted_quantity = AtLeastOne(adjusted)
        /\ calls = 1 /\ rt.places => rt.params.quantity = AtLeastOne(adjusted)

\* floor(n / d) for d > 0
RoundedDown(n, d) == n \div d

\* n / d without its fraction, d > 0
RoundedTowardZero(n, d) == IF n >= 0 THEN n \div d ELSE -((-n) \div d)

\* C31 as stated: the adjusted quantity is floor(leader quantity * m) with m
\* the segment's override if present, else the base multiplier, in the limit
\* check as in the order.
C31_AdjustedIsFloor == AdjustedIs(RoundedDown)

\* C31: the adjusted quantity is leader quantity * m truncated toward zero,
\* with m the segment's override if present, else the base multiplier, in the
\* limit check as in the order.
C31_AdjustedIsTruncated == AdjustedIs(RoundedTowardZero)

\* A quantity was calculated under a negative multiplier, the product not
\* being whole.
C31_Witness ==
    /\ calls = 1
    /\ rt.calculated
    /\ MultiplierOfCall.n < 0
    /\ (rt.trade.quantity * MultiplierOfCall.n) % MultiplierOfCall.d # 0
    /\ rt.adjusted_quantity = 0

\* C32: under a multiplier of 0 for the trade's segment replicate_trade
\* places no order: whatever the risk check says, the quantity stays 0 and
\* the call returns failure before the order placement.
C32_ZeroMultiplierDenies ==
    calls = 1 /\ MultiplierOfCall.n = 0 =>
        /\ ~rt.places
        /\ rt.params = NoParams
        /\ rt.adjusted_quantity = 0

\* The risk check passed under the segment override of 0 and the quantity
\* was calculated.
C32_Witness ==
    /\ calls = 1
    /\ rt.trade.exchange \in DOMAIN config[cur].segment_multipliers
    /\ config[cur].multiplier.n > 0
    /\ MultiplierOfCall.n = 0
    /\ rt.risk_check_passed
    /\ rt.calculated
    /\ ~rt.places

\* C33: no follower has more successful order placements since its last
\* reset than the configured daily trade cap (MAX_DAILY_TRADES).
C33_ConfiguredCapEnforced ==
    \A f \in Followers : daily_trades_count[f] <= config_max_daily_trades

\* C34: a replicate_trade call on a follower whose realized loss of the day
\* is beyond the floor is denied and places no order.
C34_LossFloorDenies ==
    [][ calls' = calls + 1 /\ realized_pnl[cur'] < -max_daily_loss
            => ~rt'.risk_check_passed /\ ~rt'.places ]_vars

\* C35: the leader connector's processed-order set stays within a fixed
\* threshold however many distinct orders the feed reports: its size stays
\* below the number of distinct order ids of the feed.
C35_ProcessedSetBounded ==
    Cardinality(processed_orders) < Cardinality(OrderIds)

\* C36: the reset of the daily statistics at system start erases nothing of
\* the session: when the reset loop of start_system runs, after the feed was
\* started, no follower has a counted trade or a placed or failed record.
C36_ResetErasesNothing ==
    [][ main_pc = "monitoring" /\ main_pc' = "running"
            => \A f \in Followers :
                   /\ daily_trades_count[f] = 0
                   /\ placed_orders[f] = << >>
                   /\ failed_orders[f] = << >> ]_vars

\* C37: after every handled event, total_trades_processed is the sum of
\* successful_replications and failed_replications.
C37_TotalIsSum ==
    pc = "idle" => total_trades_processed = successful_replications + failed_replications

\* C38: between operations, every follower's daily_trades_count is the number
\* of records in its placed_orders.
C38_CountIsPlaced ==
    pc = "idle" => \A f \in Followers : daily_trades_count[f] = Len(placed_orders[f])

InMarketHours(now) ==
    /\ now.weekday \in 0..4
    /\ market_start <= now.time
    /\ now.time <= market_end

\* C40: kite.place_order is called on a follower only in the fan-out of a
\* leader event that arrived on a weekday between 09:15 and 15:30; for an
\* event arriving before 09:15, after 15:30 or on a Saturday or Sunday no
\* order is placed.
C40_NoOrderOutsideHours ==
    [][ call_attempts' > call_attempts \/ place_invoked' # place_invoked
            => InMarketHours(event_now) ]_vars

\* Live trading, two valid events handled: one arrived in market hours and
\* was replicated to every client, the other arrived outside and was counted
\* as processed without any order.
C40_Witness ==
    /\ ~paper_trading
    /\ main_pc = "running"
    /\ pc = "idle"
    /\ total_trades_processed = 2
    /\ successful_replications = 1
    /\ failed_replications = 0
    /\ follower_clients # << >>
    /\ \A f \in Followers :
           Len(placed_orders[f]) = (IF IsClient(f) THEN 1 ELSE 0)

\* "self.config.segment_limits.get(exchange, self.config.max_position_size)"
EffectiveLimit(cfg, segment) ==
    DictGet(cfg.segment_limits, segment, cfg.max_position_size)

\* "self.config.segment_multipliers.get(exchange, self.config.multiplier)"
EffectiveMultiplier(cfg, segment) ==
    DictGet(cfg.segment_multipliers, segment, cfg.multiplier)

\* The follower's configuration with no segment override in its environment.
WithoutOverrides(cfg) ==
    AccountConfig(cfg.multiplier, cfg.max_position_size, cfg.enabled)

\* C39: for every follower and every segment without an override of its own,
\* the effective position limit and the effective multiplier are those the
\* follower has with no override configured at all.
C39_OverridesLeaveOtherSegments ==
    \A f \in Followers, s \in Segments :
        /\ s \notin DOMAIN config[f].segment_limits
              => EffectiveLimit(config[f], s) = EffectiveLimit(WithoutOverrides(config[f]), s)
        /\ s \notin DOMAIN config[f].segment_multipliers
              => EffectiveMultiplier(config[f], s)
                    = EffectiveMultiplier(WithoutOverrides(config[f]), s)

===========================================================================
